---- MODULE Spec2Model ----
(***************************************************************************)
(* A model of the chunking, retry/backoff, progress and queue code of      *)
(* yaml_translator:                                                        *)
(*   core/chunk_manager.py      ChunkManager.split_text / merge_results    *)
(*   core/retry_handler.py      RetryHandler                               *)
(*   core/retry_manager.py      RetryManager                               *)
(*   core/progress_manager.py   ProgressManager                            *)
(*   core/progress_recovery.py  ProgressRecoveryManager                    *)
(*   core/translation_queue.py  TranslationQueue                           *)
(*                                                                         *)
(* Texts are sequences of one-character strings, so that str.splitlines    *)
(* and "\n".join are conversions the model computes.  Wait times are       *)
(* fixed-point numbers in hundredths of a second.                           *)
(***************************************************************************)
EXTENDS Integers, Sequences, FiniteSets, TLC

(***************************************************************************)
(* Bounds of the model.                                                    *)
(***************************************************************************)
\* longest document text, in characters
MaxTextLen == 5
\* largest configured chunk_size (lines per chunk)
MaxChunkSize == 2
\* largest configured max_retries of the RetryHandler
MaxRetries == 4
\* most errors the RetryHandler records, over all task ids
MaxRecorded == 4
\* most calls made to the ProgressManager
MaxPmCalls == 4
\* most calls made to the ProgressRecoveryManager
MaxPrCalls == 4
\* the last second of the clocks
MaxTime == 2
\* the positive save_interval of the configurations, in seconds
MaxSaveInterval == 1
\* total_chunks of a file or task
MaxChunks == 2
\* largest configured max_concurrent of the TranslationQueue
MaxConcurrent == 2
\* most add_task calls made to the TranslationQueue
MaxAdded == 3
\* most should_retry calls the threads start, over both threads
MaxRcCalls == 3
\* longest content given to split_content, in characters
MaxContentLen == 5
\* most lines of a document given to split_text
MaxDocLines == 25

(***************************************************************************)
(* The state: one group of variables per component.                        *)
(***************************************************************************)
VARIABLES
    \* ChunkManager and its caller
    text,           \* the document given to split_text and merge_results
    chunk_size,     \* ChunkManager._chunk_size
    cm_pc,          \* where the chunk engine stands
    chunks,         \* split_text: the chunks built so far, then its return value
    current_index,  \* split_text: local current_index
    current_line,   \* split_text: local current_line
    results,        \* the ChunkResults handed to merge_results
    merge_out,      \* what merge_results returned or raised
    \* RetryHandler
    rh_config,      \* RetryHandler.config
    retry_states,   \* RetryHandler._retry_states: task id -> RetryState (or NoState)
    rh_ret,         \* per task id, what the last should_retry call returned
    rh_calls,       \* per task id, the errors passed to should_retry since its last clear_retry_info
    \* RetryHandler._categorize_error on its own
    cl_error,       \* the error given
    cl_info,        \* the ErrorInfo returned
    \* RetryManager
    rm_config,      \* RetryManager.config
    rm_states,      \* RetryManager._states: task id -> RetryState (or NoState)
    rm_ret,         \* per task id, what the last should_retry call returned
    \* ProgressManager
    pm_clock,       \* time.time(), in whole seconds
    pm_config,      \* ProgressManager.config
    pm_pc,          \* ready between calls, writing inside _save_progress, down
    pm_session,     \* ProgressManager._session
    pm_files,       \* ProgressManager._files, in insertion order
    pm_disk,        \* the file progress.json
    pm_history,     \* the seconds s for which progress_<s>.json exists
    pm_pending,     \* _save_progress: the data being dumped
    pm_saved,       \* the session and files in memory when the last dump began
    pm_op,          \* the call in progress or last returned
    pm_calls,       \* the calls made so far
    \* ProgressRecoveryManager
    pr_clock,       \* time.time(), in whole seconds
    pr_config,      \* ProgressRecoveryManager.config
    pr_pc,          \* ready between calls, writing inside _save_state, down
    pr_session,     \* ProgressRecoveryManager._session
    pr_tasks,       \* ProgressRecoveryManager._tasks, in insertion order
    pr_store,       \* session id -> the file <session id>.json
    pr_writes,      \* the writes made to the store so far
    pr_mtime,       \* session id -> st_mtime of its file, in whole seconds
    pr_pending,     \* _save_state: the data being dumped
    pr_saved,       \* session id -> the session and tasks in memory when its last dump began
    pr_op,          \* the call in progress or last returned
    pr_calls,       \* the calls made so far
    \* TranslationQueue
    tq_config,      \* TranslationQueue.config
    tq_tasks,       \* TranslationQueue._tasks
    tq_processing,  \* TranslationQueue._processing
    tq_semaphore,   \* the value of TranslationQueue._semaphore
    tq_events,      \* TranslationQueue._task_events: none, clear or set per task id
    tq_coros,       \* the _process_task coroutines created and not yet ended
    tq_added,       \* the add_task calls made so far
    tq_log,         \* the ids of the tasks add_task accepted, in the order of the calls
    \* RetryManager.should_retry called from threads
    rc_config,      \* RetryManager.config
    rc_heap,        \* the RetryState objects created so far
    rc_states,      \* RetryManager._states[task id]: none, or the object it refers to
    rc_threads,     \* per thread: the line it stands at in should_retry, and its locals
    rc_trues,       \* the calls that returned (True, wait) so far
    rc_calls,       \* the calls started so far
    \* ChunkManager.split_content / merge_chunks
    sc_config,      \* ChunkManager.config
    sc_content,     \* the content given to split_content
    sc_pc,          \* idle, split, merged or merged_fewer
    sc_split,       \* what _smart_split returned
    sc_chunks,      \* ChunkManager._chunks
    sc_strings,     \* what split_content returned
    sc_merged       \* what merge_chunks returned or raised

cmVars == <<text, chunk_size, cm_pc, chunks, current_index, current_line, results, merge_out>>
rhVars == <<rh_config, retry_states, rh_ret, rh_calls>>
clVars == <<cl_error, cl_info>>
rmVars == <<rm_config, rm_states, rm_ret>>

pmVars == <<pm_clock, pm_config, pm_pc, pm_session, pm_files, pm_disk, pm_history, pm_pending,
            pm_saved, pm_op, pm_calls>>
prVars == <<pr_clock, pr_config, pr_pc, pr_session, pr_tasks, pr_store, pr_writes, pr_mtime,
            pr_pending, pr_saved, pr_op, pr_calls>>
tqVars == <<tq_config, tq_tasks, tq_processing, tq_semaphore, tq_events, tq_coros, tq_added, tq_log>>

rcVars == <<rc_config, rc_heap, rc_states, rc_threads, rc_trues, rc_calls>>
scVars == <<sc_config, sc_content, sc_pc, sc_split, sc_chunks, sc_strings, sc_merged>>

vars == <<cmVars, rhVars, clVars, rmVars, pmVars, prVars, tqVars, rcVars, scVars>>

Min(a, b) == IF a <= b THEN a ELSE b
Max(a, b) == IF a >= b THEN a ELSE b

\* Optional[...]: None is the empty tuple, a value v is <<v>>
None == <<>>
Some(v) == <<v>>

(***************************************************************************)
(* Text: the characters of the documents, and Python's str operations.     *)
(***************************************************************************)
NL == "\n"
\* characters of the source documents
Alphabet == {"a", " ", NL}

\* all texts of at most n characters over the alphabet
RECURSIVE TextsUpTo(_)
TextsUpTo(n) ==
    IF n = 0 THEN {<<>>}
    ELSE LET shorter == TextsUpTo(n - 1)
         IN  shorter \cup {Append(t, c) : t \in {u \in shorter : Len(u) = n - 1}, c \in Alphabet}

\* position of the first line break of s, 0 if there is none
FirstNL(s) ==
    IF \E i \in 1..Len(s) : s[i] = NL
    THEN CHOOSE i \in 1..Len(s) : s[i] = NL /\ \A j \in 1..(i - 1) : s[j] # NL
    ELSE 0

\* str.splitlines(): the lines of s without their line breaks; a final line
\* break opens no further line, and the empty text has no line
RECURSIVE splitlines(_)
splitlines(s) ==
    IF s = <<>> THEN <<>>
    ELSE LET i == FirstNL(s)
         IN  IF i = 0 THEN <<s>>
             ELSE <<SubSeq(s, 1, i - 1)>> \o splitlines(SubSeq(s, i + 1, Len(s)))

\* "\n".join(ls)
RECURSIVE join(_)
join(ls) ==
    IF ls = <<>> THEN <<>>
    ELSE IF Len(ls) = 1 THEN ls[1]
    ELSE ls[1] \o <<NL>> \o join(Tail(ls))

\* line.strip() == "": the line holds white space only
IsBlank(line) == \A i \in 1..Len(line) : line[i] = " "

\* ls[lo:hi] of Python (0-based, hi exclusive), for 0 <= lo
Slice(ls, lo, hi) == SubSeq(ls, Min(lo, Len(ls)) + 1, Min(hi, Len(ls)))

\* ls[lo:hi] = xs of Python, for 0 <= lo: both ends are clamped to len(ls),
\* and an end before the start is the start
SliceAssign(ls, lo, hi, xs) ==
    LET n  == Len(ls)
        s1 == Min(lo, n)
        e1 == Max(s1, Min(hi, n))
    IN  SubSeq(ls, 1, s1) \o xs \o SubSeq(ls, e1 + 1, n)

(***************************************************************************)
(* ChunkManager (core/chunk_manager.py)                                    *)
(***************************************************************************)
\* ChunkManager._context_lines
context_lines == 2
\* _find_chunk_boundary: max_look_ahead
max_look_ahead == 10

\* _get_indent_level: len(line) - len(line.lstrip())
RECURSIVE get_indent_level(_)
get_indent_level(line) ==
    IF line = <<>> \/ Head(line) # " " THEN 0
    ELSE 1 + get_indent_level(Tail(line))

\* the look-ahead of _find_chunk_boundary from 0-based line i up to last (exclusive)
RECURSIVE LookAhead(_, _, _, _)
LookAhead(lines, i, last, end) ==
    IF i >= last THEN end
    ELSE IF IsBlank(lines[i + 1]) THEN i + 1
    ELSE IF i > 0 /\ get_indent_level(lines[i + 1]) < get_indent_level(lines[i]) THEN i
    ELSE LookAhead(lines, i + 1, last, end)

\* a mutant of find_chunk_boundary: the cut after a blank line is one line late
find_chunk_boundary_late(lines, end) ==
    IF end >= Len(lines) THEN end
    ELSE LET r == LookAhead(lines, end, Min(end + max_look_ahead, Len(lines)), end)
         IN  IF r > end /\ IsBlank(lines[r]) THEN r + 1 ELSE r

\* a mutant of find_chunk_boundary: the cut is one line early
find_chunk_boundary_early(lines, end) ==
    IF end >= Len(lines) THEN end
    ELSE LookAhead(lines, end, Min(end + max_look_ahead, Len(lines)), end) - 1

\* _find_chunk_boundary(lines, end)
find_chunk_boundary(lines, end) ==
    IF end >= Len(lines) THEN end
    ELSE LookAhead(lines, end, Min(end + max_look_ahead, Len(lines)), end)

\* _get_context(lines, start, end, total_lines)
get_context(lines, start, end, total_lines) ==
    LET before == IF start > 0
                  THEN Slice(lines, Max(0, start - context_lines), start)
                  ELSE <<>>
        after  == IF end < total_lines
                  THEN Slice(lines, end, Min(total_lines, end + context_lines))
                  ELSE <<>>
        ctx    == before \o after
    IN  IF ctx # <<>> THEN Some(join(ctx)) ELSE None

\* ChunkInfo(index, start_line, end_line, content, context); level and
\* is_complete keep their defaults
ChunkInfo(index, start_line, end_line, content, context) ==
    [index |-> index, start_line |-> start_line, end_line |-> end_line,
     content |-> content, context |-> context, level |-> 0, is_complete |-> TRUE]

\* ChunkResult(index, content, success, error)
ChunkResult(index, content, success, error) ==
    [index |-> index, content |-> content, success |-> success, error |-> error]

\* one step of a stable sort by index: x goes behind every element whose
\* index is not larger
RECURSIVE InsertByIndex(_, _)
InsertByIndex(xs, x) ==
    IF xs = <<>> THEN <<x>>
    ELSE IF xs[Len(xs)].index <= x.index THEN Append(xs, x)
    ELSE Append(InsertByIndex(SubSeq(xs, 1, Len(xs) - 1), x), xs[Len(xs)])

\* sorted(xs, key=lambda x: x.index)
RECURSIVE SortedByIndex(_)
SortedByIndex(xs) ==
    IF xs = <<>> THEN <<>>
    ELSE InsertByIndex(SortedByIndex(SubSeq(xs, 1, Len(xs) - 1)), xs[Len(xs)])

\* raise ChunkError(message, details=details)
ChunkError(message, details) ==
    [kind |-> "ChunkError", message |-> message, details |-> details]

\* return value (a text)
Returned(t) == [kind |-> "ok", text |-> t]

\* merge_results: the loop over zip(sorted_results, sorted_chunks), from pair k on
RECURSIVE MergeLoop(_, _, _, _)
MergeLoop(lines, sorted_results, sorted_chunks, k) ==
    IF k > Min(Len(sorted_results), Len(sorted_chunks)) THEN lines
    ELSE LET result_lines == splitlines(sorted_results[k].content)
             start_idx == sorted_chunks[k].start_line - 1
             end_idx == sorted_chunks[k].end_line
         IN  MergeLoop(SliceAssign(lines, start_idx, end_idx, result_lines),
                       sorted_results, sorted_chunks, k + 1)

\* a mutant of ChunkErrors: only the first failed result is reported
ChunkErrorsFirstOnly(failed_chunks) ==
    <<<<"Chunk", failed_chunks[1].index, failed_chunks[1].error>>>>

\* the details of "Some chunks failed to process": one entry
\* "Chunk {r.index}: {r.error}" per failed result, joined by line breaks
ChunkErrors(failed_chunks) ==
    [i \in 1..Len(failed_chunks) |-> <<"Chunk", failed_chunks[i].index, failed_chunks[i].error>>]

\* merge_results(original_text, results, chunks)
merge_results(original_text, rs, cs) ==
    IF Len(rs) # Len(cs)
    THEN ChunkError("Results count does not match chunks count",
                    <<"Results", Len(rs), "Chunks", Len(cs)>>)
    ELSE LET sorted_results == SortedByIndex(rs)
             sorted_chunks == SortedByIndex(cs)
             failed_chunks == SelectSeq(sorted_results, LAMBDA r : ~r.success)
         IN  IF failed_chunks # <<>>
             THEN ChunkError("Some chunks failed to process", ChunkErrors(failed_chunks))
             ELSE Returned(join(MergeLoop(splitlines(original_text),
                                          sorted_results, sorted_chunks, 1)))

(***************************************************************************)
(* The ChunkResult lists a caller hands to merge_results: per chunk an     *)
(* outcome of the translation, then at most one defect of the list.        *)
(***************************************************************************)
Outcomes == {"same", "short", "long", "fail_none", "fail_msg"}

\* the result of translating chunk c with outcome o; "b" is translated text
ResultFor(c, o) ==
    CASE o = "same"      -> ChunkResult(c.index, c.content, TRUE, None)
      [] o = "short"     -> ChunkResult(c.index, <<"b">>, TRUE, None)
      [] o = "long"      -> ChunkResult(c.index, <<"b", NL, "b">>, TRUE, None)
      [] o = "fail_none" -> ChunkResult(c.index, <<>>, FALSE, None)
      [] o = "fail_msg"  -> ChunkResult(c.index, <<>>, FALSE, Some("boom"))

RemoveAt(xs, k) == SubSeq(xs, 1, k - 1) \o SubSeq(xs, k + 1, Len(xs))
Reverse(xs) == [i \in 1..Len(xs) |-> xs[Len(xs) + 1 - i]]

ResultInputs(cs) ==
    LET n == Len(cs)
        complete == {[i \in 1..n |-> ResultFor(cs[i], f[i])] : f \in [1..n -> Outcomes]}
        missing  == {RemoveAt(rs, k) : rs \in complete, k \in 1..n}
        extra    == {Append(rs, ChunkResult(n, <<"b">>, TRUE, None)) : rs \in complete}
        foreign  == {[rs EXCEPT ![k].index = n] : rs \in complete, k \in 1..n}
        dup      == {[rs EXCEPT ![kj[1]].index = cs[kj[2]].index] :
                        rs \in complete, kj \in {p \in (1..n) \X (1..n) : p[1] # p[2]}}
        lists    == complete \cup missing \cup extra \cup foreign \cup dup
    IN  lists \cup {Reverse(rs) : rs \in lists}

NoOutcome == [kind |-> "none"]

CmInit ==
    /\ text \in TextsUpTo(MaxTextLen)
    /\ chunk_size \in 1..MaxChunkSize
    /\ cm_pc = "idle"
    /\ chunks = <<>>
    /\ current_index = 0
    /\ current_line = 0
    /\ results = <<>>
    /\ merge_out = NoOutcome

CmIdle ==
    /\ text = <<>>
    /\ chunk_size = 1
    /\ cm_pc = "idle"
    /\ chunks = <<>>
    /\ current_index = 0
    /\ current_line = 0
    /\ results = <<>>
    /\ merge_out = NoOutcome

\* split_text, up to the loop: the single-chunk return or the loop's start
SplitTextEnter ==
    /\ cm_pc = "idle"
    /\ LET lines == splitlines(text)
           total_lines == Len(lines)
       IN  IF total_lines <= chunk_size
           THEN /\ chunks' = <<ChunkInfo(0, 1, total_lines, text, None)>>
                /\ cm_pc' = "split_done"
           ELSE /\ chunks' = <<>>
                /\ cm_pc' = "split_loop"
    /\ current_index' = 0
    /\ current_line' = 0
    /\ UNCHANGED <<text, chunk_size, results, merge_out>>
    /\ UNCHANGED <<rhVars, clVars, rmVars, pmVars, prVars, tqVars, rcVars, scVars>>

\* one iteration of split_text's while loop
SplitTextIterate ==
    /\ cm_pc = "split_loop"
    /\ LET lines == splitlines(text)
           total_lines == Len(lines)
           chunk_start == current_line
           chunk_end == find_chunk_boundary(lines, Min(chunk_start + chunk_size, total_lines))
       IN  /\ current_line < total_lines
           /\ chunks' = Append(chunks,
                  ChunkInfo(current_index, chunk_start + 1, chunk_end,
                            join(Slice(lines, chunk_start, chunk_end)),
                            get_context(lines, chunk_start, chunk_end, total_lines)))
           /\ current_index' = current_index + 1
           /\ current_line' = chunk_end
    /\ UNCHANGED <<text, chunk_size, cm_pc, results, merge_out>>
    /\ UNCHANGED <<rhVars, clVars, rmVars, pmVars, prVars, tqVars, rcVars, scVars>>

\* split_text's loop ends and the chunks are returned
SplitTextReturn ==
    /\ cm_pc = "split_loop"
    /\ current_line >= Len(splitlines(text))
    /\ cm_pc' = "split_done"
    /\ UNCHANGED <<text, chunk_size, chunks, current_index, current_line, results, merge_out>>
    /\ UNCHANGED <<rhVars, clVars, rmVars, pmVars, prVars, tqVars, rcVars, scVars>>

\* merge_results(text, rs, chunks) on a result list rs of the caller
MergeResults ==
    /\ cm_pc = "split_done"
    /\ \E rs \in ResultInputs(chunks) :
          /\ results' = rs
          /\ merge_out' = merge_results(text, rs, chunks)
    /\ cm_pc' = "merged"
    /\ UNCHANGED <<text, chunk_size, chunks, current_index, current_line>>
    /\ UNCHANGED <<rhVars, clVars, rmVars, pmVars, prVars, tqVars, rcVars, scVars>>

CmNext == SplitTextEnter \/ SplitTextIterate \/ SplitTextReturn \/ MergeResults


(***************************************************************************)
(* Properties of split_text and merge_results.                             *)
(***************************************************************************)
\* the results match the chunks one-to-one by index
OneToOne(rs, cs) ==
    /\ Len(rs) = Len(cs)
    /\ \A i \in 1..Len(cs) : Cardinality({j \in 1..Len(rs) : rs[j].index = cs[i].index}) = 1
    /\ \A j \in 1..Len(rs) : \E i \in 1..Len(cs) : cs[i].index = rs[j].index

AllSuccessful(rs) == \A j \in 1..Len(rs) : rs[j].success

\* every result carries the content of the chunk of its index, unchanged
IdentityResults(rs, cs) ==
    /\ OneToOne(rs, cs)
    /\ AllSuccessful(rs)
    /\ \A j \in 1..Len(rs) : \A i \in 1..Len(cs) :
          cs[i].index = rs[j].index => rs[j].content = cs[i].content

\* the lines of the results, concatenated in the order given
RECURSIVE ResultLines(_)
ResultLines(rs) ==
    IF rs = <<>> THEN <<>> ELSE splitlines(rs[1].content) \o ResultLines(Tail(rs))

\* the ChunkError's details hold the entry of failed result r
NamesFailure(out, r) ==
    /\ out.kind = "ChunkError"
    /\ out.message = "Some chunks failed to process"
    /\ \E j \in 1..Len(out.details) : out.details[j] = <<"Chunk", r.index, r.error>>

\* C1: split_text followed by merge_results on successful results whose
\* content is the content of the chunk of the same index returns the
\* document D, for every D that is the join of its lines.
C1_RoundTrip ==
    (cm_pc = "merged" /\ text = join(splitlines(text)) /\ IdentityResults(results, chunks))
        => (merge_out.kind = "ok" /\ merge_out.text = text)

\* C2: for a document of L >= 1 lines the chunks split_text returns have
\* the indices 0..n-1 in order, start at line 1, are non-empty ranges, each
\* starts one line after the end of the one before, and the last ends at L.
C2_Coverage ==
    (cm_pc \in {"split_done", "merged"} /\ Len(splitlines(text)) >= 1)
        => /\ Len(chunks) >= 1
           /\ \A i \in 1..Len(chunks) :
                 /\ chunks[i].index = i - 1
                 /\ chunks[i].start_line <= chunks[i].end_line
                 /\ chunks[i].start_line = (IF i = 1 THEN 1 ELSE chunks[i - 1].end_line + 1)
           /\ chunks[Len(chunks)].end_line = Len(splitlines(text))

\* C2 witness: a split into several chunks, one of them moved past
\* chunk_size lines by the look-ahead
C2_Witness ==
    /\ cm_pc = "split_done"
    /\ Len(chunks) >= 2
    /\ \E i \in 1..Len(chunks) : chunks[i].end_line - chunks[i].start_line + 1 > chunk_size

\* C3: when every result is successful (and the results match the chunks),
\* the merged text is the concatenation of the results' lines in ascending
\* index order, whatever the number of lines of each result.
C3_MergeIsConcatenation ==
    (cm_pc = "merged" /\ OneToOne(results, chunks) /\ AllSuccessful(results))
        => /\ merge_out.kind = "ok"
           /\ merge_out.text = join(ResultLines(SortedByIndex(results)))

\* C4: merge_results raises ChunkError whenever the results do not match
\* the chunks one-to-one by index.
C4_MismatchFails ==
    (cm_pc = "merged" /\ ~OneToOne(results, chunks)) => merge_out.kind = "ChunkError"

\* C5, as claimed: if any result is unsuccessful, merge_results raises a
\* ChunkError whose details name every failed index with its error.
C5_EveryFailureNamed ==
    (cm_pc = "merged" /\ ~AllSuccessful(results))
        => \A j \in 1..Len(results) :
              ~results[j].success => NamesFailure(merge_out, results[j])

\* C5, amended: if any result is unsuccessful, merge_results raises a
\* ChunkError and returns no text; when there are as many results as
\* chunks, its details name every failed index with its error.
C5_FailuresNamedWhenCountsMatch ==
    (cm_pc = "merged" /\ ~AllSuccessful(results))
        => /\ merge_out.kind = "ChunkError"
           /\ Len(results) = Len(chunks) =>
                 \A j \in 1..Len(results) :
                    ~results[j].success => NamesFailure(merge_out, results[j])

\* C5 witness: a merge of as many results as chunks, two of them failed
\* with different errors
C5_Witness ==
    /\ cm_pc = "merged"
    /\ Len(results) = Len(chunks)
    /\ \E i, j \in 1..Len(results) :
          /\ ~results[i].success /\ ~results[j].success
          /\ results[i].index # results[j].index
          /\ results[i].error # results[j].error

\* the lines of the document that chunk c covers
LinesOf(c, lines) == Slice(lines, c.start_line - 1, c.end_line)

\* context is made of the last nb lines of before and the first na lines
\* of after, and is None when that is nothing
AdjacentContext(context, before, after) ==
    \E nb \in 0..Len(before), na \in 0..Len(after) :
        context = IF nb + na = 0 THEN None
                  ELSE Some(join(Slice(before, Len(before) - nb, Len(before))
                                 \o Slice(after, 0, na)))

\* C31: the context of every chunk split_text returns holds only lines of
\* the chunk just before and lines of the chunk just after it; the first
\* chunk has nothing from before, the last nothing from after, and a single
\* chunk has no context.
C31_ContextAdjacency ==
    cm_pc \in {"split_done", "merged"} =>
        \A i \in 1..Len(chunks) :
            AdjacentContext(chunks[i].context,
                IF i > 1 THEN LinesOf(chunks[i - 1], splitlines(text)) ELSE <<>>,
                IF i < Len(chunks) THEN LinesOf(chunks[i + 1], splitlines(text)) ELSE <<>>)

(***************************************************************************)
(* split_text on documents of many lines.                                  *)
(***************************************************************************)
\* the lines of a document of n lines: all alike ("uniform"), line p blank
\* among unindented lines ("blank"), or line p unindented among indented
\* lines ("dedent")
DocLines(n, p, kind) ==
    [i \in 1..n |->
        IF kind = "blank" THEN (IF i = p THEN <<>> ELSE <<"a">>)
        ELSE IF kind = "dedent" THEN (IF i = p THEN <<"a">> ELSE <<" ", "a">>)
        ELSE <<"a">>]

\* the documents given to split_text
LineDocs ==
    {join(DocLines(n, p, kind)) :
        n \in 0..MaxDocLines, p \in 1..MaxDocLines, kind \in {"uniform", "blank", "dedent"}}

\* the configured chunk_size values for these documents
DocChunkSizes == {1, MaxChunkSize, max_look_ahead}

\* a ChunkManager that was given one of these documents
CmLinesInit ==
    /\ text \in LineDocs
    /\ chunk_size \in DocChunkSizes
    /\ cm_pc = "idle"
    /\ chunks = <<>>
    /\ current_index = 0
    /\ current_line = 0
    /\ results = <<>>
    /\ merge_out = NoOutcome

\* split_text alone
SplitNext == SplitTextEnter \/ SplitTextIterate \/ SplitTextReturn

\* the number of lines chunk c spans
Span(c) == c.end_line - c.start_line + 1

\* all lines have the same indentation and none is blank
Uniform(lines) ==
    \A i \in 1..Len(lines) :
        /\ ~IsBlank(lines[i])
        /\ get_indent_level(lines[i]) = get_indent_level(lines[1])

\* the bounds on the chunks split_text returned
ChunkSpans ==
    /\ \A i \in 1..Len(chunks) :
          Span(chunks[i]) >= 1 /\ Span(chunks[i]) <= chunk_size + max_look_ahead
    /\ Uniform(splitlines(text)) =>
          \A i \in 1..(Len(chunks) - 1) : Span(chunks[i]) = chunk_size

\* C32, as claimed: every chunk split_text returns spans at least 1 and at
\* most chunk_size + 10 lines, and for a document of uniform indentation
\* without blank lines every chunk but the last spans chunk_size lines.
C32_ChunkSizeBound ==
    cm_pc = "split_done" => ChunkSpans

\* C32, amended: the same for every document of at least one line (the
\* single chunk returned for the empty document spans no line).
C32_ChunkSizeBoundNonEmpty ==
    (cm_pc = "split_done" /\ Len(splitlines(text)) >= 1) => ChunkSpans

\* C32 witness: a chunk that the look-ahead extended by the whole window
C32_Witness ==
    /\ cm_pc = "split_done"
    /\ \E i \in 1..Len(chunks) : Span(chunks[i]) = chunk_size + max_look_ahead

\* C32 witness of the example: 25 uniform lines with chunk_size 10 give 3
\* chunks
C32_Example ==
    /\ cm_pc = "split_done"
    /\ chunk_size = 10
    /\ Len(splitlines(text)) = 25
    /\ Uniform(splitlines(text))
    /\ Len(chunks) = 3

\* C33: every iteration of split_text's loop advances current_line by at
\* least one line and there are at most L iterations for L lines, and the
\* loop, once entered, ends.
C33_SplitTextTerminates ==
    /\ [][(cm_pc = "split_loop" /\ chunks' # chunks) =>
              /\ current_line' >= current_line + 1
              /\ current_index' <= Len(splitlines(text))]_vars
    /\ (cm_pc = "split_loop") ~> (cm_pc = "split_done")

\* C33 witness: the loop ended after one iteration for each of at least
\* three lines
C33_Witness ==
    /\ cm_pc = "split_done"
    /\ Len(chunks) >= 3
    /\ Len(chunks) = Len(splitlines(text))

(***************************************************************************)
(* RetryHandler (core/retry_handler.py)                                    *)
(*                                                                         *)
(* Strings are sequences of characters.  Durations are in hundredths of a  *)
(* second.  The wall clock (ErrorInfo.timestamp, RetryState.next_retry_    *)
(* time) is left out: no decision and no wait reads it.                    *)
(***************************************************************************)
\* an exception: the name of its class and str(error)
Exc(type, msg) == [type |-> type, msg |-> msg]

\* isinstance(error, cls) for the three classes _categorize_error tests;
\* RateLimitError, AuthenticationError and NetworkError derive from APIError
\* (utils/exceptions.py), TimeoutError is the builtin
IsInstance(error, cls) ==
    CASE cls = "RateLimitError" -> error.type = "RateLimitError"
      [] cls = "APIError" ->
            error.type \in {"APIError", "RateLimitError", "AuthenticationError", "NetworkError"}
      [] cls = "TimeoutError" -> error.type = "TimeoutError"

UpperLetters == <<"A", "B", "C", "D", "E", "F", "G", "H", "I", "J", "K", "L", "M", "N", "O", "P", "Q", "R", "S", "T", "U", "V", "W", "X", "Y", "Z">>
LowerLetters == <<"a", "b", "c", "d", "e", "f", "g", "h", "i", "j", "k", "l", "m", "n", "o", "p", "q", "r", "s", "t", "u", "v", "w", "x", "y", "z">>

\* str.lower(), character by character
LowerChar(c) ==
    IF \E i \in 1..Len(UpperLetters) : UpperLetters[i] = c
    THEN LowerLetters[CHOOSE i \in 1..Len(UpperLetters) : UpperLetters[i] = c]
    ELSE c
lower(s) == [i \in 1..Len(s) |-> LowerChar(s[i])]

\* pattern in s
Contains(pattern, s) ==
    \E i \in 0..(Len(s) - Len(pattern)) : SubSeq(s, i + 1, i + Len(pattern)) = pattern

\* _init_error_patterns(): the patterns with their categories, in the
\* order of the dict
init_error_patterns ==
    <<<<<<"c", "o", "n", "n", "e", "c", "t", "i", "o", "n">>, "network">>,
      <<<<"t", "i", "m", "e", "o", "u", "t">>, "timeout">>,
      <<<<"n", "e", "t", "w", "o", "r", "k">>, "network">>,
      <<<<"d", "n", "s">>, "network">>,
      <<<<"s", "o", "c", "k", "e", "t">>, "network">>,
      <<<<"r", "a", "t", "e", " ", "l", "i", "m", "i", "t">>, "rate_limit">>,
      <<<<"t", "o", "o", " ", "m", "a", "n", "y", " ", "r", "e", "q", "u", "e", "s", "t", "s">>, "rate_limit">>,
      <<<<"a", "p", "i">>, "api">>,
      <<<<"i", "n", "v", "a", "l", "i", "d">>, "api">>,
      <<<<"u", "n", "a", "u", "t", "h", "o", "r", "i", "z", "e", "d">>, "api">>>>

\* ErrorInfo(category, message, details); retry_count keeps its default
ErrorInfo(category, message, details) ==
    [category |-> category, message |-> message, details |-> details, retry_count |-> 0]

\* _categorize_error(error)
categorize_error(error) ==
    IF IsInstance(error, "RateLimitError")
    THEN ErrorInfo("rate_limit", <<"A", "P", "I", " ", "r", "a", "t", "e", " ", "l", "i", "m", "i", "t", " ", "e", "x", "c", "e", "e", "d", "e", "d">>, Some(error.msg))
    ELSE IF IsInstance(error, "APIError")
    THEN ErrorInfo("api", <<"A", "P", "I", " ", "e", "r", "r", "o", "r", " ", "o", "c", "c", "u", "r", "r", "e", "d">>, Some(error.msg))
    ELSE IF IsInstance(error, "TimeoutError")
    THEN ErrorInfo("timeout", <<"O", "p", "e", "r", "a", "t", "i", "o", "n", " ", "t", "i", "m", "e", "d", " ", "o", "u", "t">>, Some(error.msg))
    ELSE LET error_str == lower(error.msg)
             patterns == init_error_patterns
             hits == {i \in 1..Len(patterns) : Contains(patterns[i][1], error_str)}
         IN  IF hits # {}
             THEN ErrorInfo(patterns[CHOOSE i \in hits : \A j \in hits : i <= j][2], error.msg, None)
             ELSE ErrorInfo("unknown", error.msg, None)

\* RetryState(task_id, error_history=[], strategy=IMMEDIATE, max_retries)
\* as _get_or_create_state creates it
NewRetryState(task_id, config) ==
    [task_id |-> task_id, error_history |-> <<>>, strategy |-> "immediate",
     max_retries |-> config.max_retries]

\* a mutant of get_or_create_state: the state is always created anew
get_or_create_state_anew(entry, task_id, config) == NewRetryState(task_id, config)

\* _get_or_create_state(task_id), on the entry of the task id
get_or_create_state(entry, task_id, config) ==
    IF entry = None THEN NewRetryState(task_id, config) ELSE entry[1]

\* a mutant of Exhausted: the ceiling is compared with > instead of >=
ExhaustedLate(state) == Len(state.error_history) > state.max_retries

\* should_retry: len(state.error_history) >= state.max_retries
Exhausted(state) == Len(state.error_history) >= state.max_retries

\* a mutant of update_retry_strategy: the strategy follows the first error
\* of the history, and api is always linear
update_retry_strategy_first(state) ==
    IF state.error_history = <<>> THEN state
    ELSE [state EXCEPT !.strategy =
            IF state.error_history[1].category \in {"rate_limit", "unknown"}
            THEN "exponential" ELSE "linear"]

\* _update_retry_strategy(state)
update_retry_strategy(state) ==
    IF state.error_history = <<>> THEN state
    ELSE LET latest_error == state.error_history[Len(state.error_history)]
         IN  [state EXCEPT !.strategy =
                CASE latest_error.category = "rate_limit" -> "exponential"
                  [] latest_error.category = "network" -> "linear"
                  [] latest_error.category = "api" ->
                        IF Len(state.error_history) > 2 THEN "exponential" ELSE "linear"
                  [] latest_error.category = "timeout" -> "linear"
                  [] OTHER -> "exponential"]

RECURSIVE Pow2(_)
Pow2(n) == IF n <= 0 THEN 1 ELSE 2 * Pow2(n - 1)

\* _calculate_wait_time(state); the strategy NONE (wait inf) is never
\* assigned by the code and has no case here
calculate_wait_time(config, state) ==
    LET retry_count == Len(state.error_history)
        base_delay == config.base_delay
    IN  CASE state.strategy = "immediate" -> 0
          [] state.strategy = "linear" -> base_delay * retry_count
          [] state.strategy = "exponential" -> base_delay * Pow2(retry_count - 1)

\* should_retry(task_id, error) on the entry of the task id: the new
\* RetryState and the pair returned
should_retry(config, entry, task_id, error) ==
    LET state == get_or_create_state(entry, task_id, config)
        error_info == categorize_error(error)
        appended == [state EXCEPT !.error_history = Append(@, error_info)]
    IN  IF Exhausted(appended)
        THEN [state |-> appended, ret |-> [retry |-> FALSE, wait |-> 0]]
        ELSE LET updated == update_retry_strategy(appended)
             IN  [state |-> updated,
                  ret |-> [retry |-> TRUE, wait |-> calculate_wait_time(config, updated)]]

\* get_failed_tasks(): the keys of _retry_states
get_failed_tasks == {t \in DOMAIN retry_states : retry_states[t] # None}

\* get_retry_info(task_id)
get_retry_info(task_id) == retry_states[task_id]

\* the task ids and the errors of the model, one error per category
RhTasks == {"t1", "t2"}
RhErrors ==
    {Exc("RateLimitError", <<"q", "u", "o", "t", "a">>), Exc("APIError", <<"b", "a", "d", " ", "r", "e", "q", "u", "e", "s", "t">>),
     Exc("TimeoutError", <<"t", "i", "m", "e", "d", " ", "o", "u", "t">>), Exc("Exception", <<"D", "N", "S", " ", "f", "a", "i", "l", "u", "r", "e">>),
     Exc("Exception", <<"b", "o", "o", "m">>)}

\* the configurations of the model: max_retries and base_delay are what
\* RetryHandler reads; min_wait_time and max_wait_time are the configured
\* wait limits of RetryConfig (config/models.py), which it never reads
RhConfigs ==
    [max_retries : 1..MaxRetries, base_delay : {100, 250},
     min_wait_time : {10}, max_wait_time : {300, 30000}]

RhIdleConfig ==
    [max_retries |-> 1, base_delay |-> 100, min_wait_time |-> 10, max_wait_time |-> 30000]

\* the number of errors recorded over all task ids
RECURSIVE RhRecorded(_)
RhRecorded(ts) ==
    IF ts = {} THEN 0
    ELSE LET t == CHOOSE x \in ts : TRUE
         IN  (IF retry_states[t] = None THEN 0 ELSE Len(retry_states[t][1].error_history))
             + RhRecorded(ts \ {t})

RhInit ==
    /\ rh_config \in RhConfigs
    /\ retry_states = [t \in RhTasks |-> None]
    /\ rh_ret = [t \in RhTasks |-> None]
    /\ rh_calls = [t \in RhTasks |-> <<>>]

RhIdle ==
    /\ rh_config = RhIdleConfig
    /\ retry_states = [t \in RhTasks |-> None]
    /\ rh_ret = [t \in RhTasks |-> None]
    /\ rh_calls = [t \in RhTasks |-> <<>>]

\* should_retry(t, e)
RhShouldRetry ==
    /\ RhRecorded(RhTasks) < MaxRecorded
    /\ \E t \in RhTasks, e \in RhErrors :
          LET r == should_retry(rh_config, retry_states[t], t, e)
          IN  /\ retry_states' = [retry_states EXCEPT ![t] = Some(r.state)]
              /\ rh_ret' = [rh_ret EXCEPT ![t] = Some(r.ret)]
              /\ rh_calls' = [rh_calls EXCEPT ![t] = Append(@, e)]
    /\ UNCHANGED rh_config
    /\ UNCHANGED <<cmVars, clVars, rmVars, pmVars, prVars, tqVars, rcVars, scVars>>

\* clear_retry_info(t)
RhClearRetryInfo ==
    /\ \E t \in RhTasks :
          /\ retry_states' = [retry_states EXCEPT ![t] = None]
          /\ rh_ret' = [rh_ret EXCEPT ![t] = None]
          /\ rh_calls' = [rh_calls EXCEPT ![t] = <<>>]
    /\ UNCHANGED rh_config
    /\ UNCHANGED <<cmVars, clVars, rmVars, pmVars, prVars, tqVars, rcVars, scVars>>

RhNext == RhShouldRetry \/ RhClearRetryInfo

(***************************************************************************)
(* _categorize_error as a function of the error: the errors given are the  *)
(* typed ones and untyped ones whose message holds up to two keywords.     *)
(***************************************************************************)
ConnectionRefusedTimeout == <<"C", "o", "n", "n", "e", "c", "t", "i", "o", "n", " ", "r", "e", "f", "u", "s", "e", "d", ":", " ", "t", "i", "m", "e", "o", "u", "t", " ", "a", "f", "t", "e", "r", " ", "3", "0", "s">>

ClWords == {init_error_patterns[i][1] : i \in 1..Len(init_error_patterns)} \cup {<<"b", "o", "o", "m">>}

ClMessages ==
    ClWords \cup {w1 \o <<":", " ">> \o w2 : w1, w2 \in ClWords} \cup {ConnectionRefusedTimeout}

ClErrors ==
    {Exc("Exception", m) : m \in ClMessages}
    \cup {Exc(ty, m) : ty \in {"RateLimitError", "APIError", "NetworkError", "TimeoutError"},
                       m \in {ConnectionRefusedTimeout, <<"b", "o", "o", "m">>}}

ClInit ==
    /\ cl_error \in ClErrors
    /\ cl_info = None

ClIdle ==
    /\ cl_error = Exc("Exception", <<"b", "o", "o", "m">>)
    /\ cl_info = None

\* _categorize_error(cl_error)
Categorize ==
    /\ cl_info = None
    /\ cl_info' = Some(categorize_error(cl_error))
    /\ UNCHANGED cl_error
    /\ UNCHANGED <<cmVars, rhVars, rmVars, pmVars, prVars, tqVars, rcVars, scVars>>

ClNext == Categorize

(***************************************************************************)
(* RetryManager (core/retry_manager.py)                                    *)
(*                                                                         *)
(* Floats are fixed-point numbers in hundredths: a wait of 1.0 s is 100, a *)
(* backoff factor of 1.5 is 150; a product is divided by 100 and rounded   *)
(* down.  The wall clock (last_attempt, next_attempt) is left out but for  *)
(* time.time() % 1, the fraction the jitter reads.                         *)
(***************************************************************************)
\* RetryManager._error_patterns: per category its patterns, in the order of
\* the dict
rm_error_patterns ==
    <<<<"network", <<<<"C", "o", "n", "n", "e", "c", "t", "i", "o", "n", "E", "r", "r", "o", "r">>, <<"T", "i", "m", "e", "o", "u", "t", "E", "r", "r", "o", "r">>, <<"N", "e", "t", "w", "o", "r", "k", "E", "r", "r", "o", "r">>>>>>,
      <<"rate_limit", <<<<"R", "a", "t", "e", "L", "i", "m", "i", "t", "E", "r", "r", "o", "r">>, <<"T", "o", "o", "M", "a", "n", "y", "R", "e", "q", "u", "e", "s", "t", "s">>, <<"4", "2", "9">>>>>>,
      <<"api", <<<<"A", "P", "I", "E", "r", "r", "o", "r">>, <<"I", "n", "v", "a", "l", "i", "d", "R", "e", "q", "u", "e", "s", "t">>, <<"A", "u", "t", "h", "e", "n", "t", "i", "c", "a", "t", "i", "o", "n", "E", "r", "r", "o", "r">>>>>>,
      <<"validation", <<<<"V", "a", "l", "i", "d", "a", "t", "i", "o", "n", "E", "r", "r", "o", "r">>, <<"I", "n", "v", "a", "l", "i", "d", "F", "o", "r", "m", "a", "t">>, <<"S", "c", "h", "e", "m", "a", "E", "r", "r", "o", "r">>>>>>,
      <<"timeout", <<<<"T", "i", "m", "e", "o", "u", "t">>, <<"D", "e", "a", "d", "l", "i", "n", "e", "E", "x", "c", "e", "e", "d", "e", "d">>>>>>>>

\* RetryManager._categorize_error(error): the first category one of whose
\* patterns, lowercased, occurs in str(error).lower() or in the lowercased
\* name of the error's class
rm_categorize_error(error) ==
    LET error_str == lower(error.msg)
        error_type == lower(error.type)
        hit(k) == \E i \in 1..Len(rm_error_patterns[k][2]) :
                     LET pattern == lower(rm_error_patterns[k][2][i])
                     IN  Contains(pattern, error_str) \/ Contains(pattern, error_type)
        hits == {k \in 1..Len(rm_error_patterns) : hit(k)}
    IN  IF hits # {}
        THEN rm_error_patterns[CHOOSE k \in hits : \A j \in hits : k <= j][1]
        ELSE "unknown"

\* _get_max_retries(category)
get_max_retries(config, category) ==
    CASE category = "network" -> config.max_network_retries
      [] category = "rate_limit" -> config.max_rate_limit_retries
      [] category = "api" -> config.max_api_retries
      [] category = "validation" -> config.max_validation_retries
      [] category = "timeout" -> config.max_timeout_retries
      [] category = "unknown" -> config.max_unknown_retries
      [] OTHER -> config.max_unknown_retries

\* _calculate_wait_time: category_multiplier, in hundredths
category_multiplier(category) ==
    CASE category = "network" -> 100
      [] category = "rate_limit" -> 200
      [] category = "api" -> 150
      [] category = "validation" -> 100
      [] category = "timeout" -> 120
      [] category = "unknown" -> 100
      [] OTHER -> 100

\* factor ** n, in hundredths
RECURSIVE FxPow(_, _)
FxPow(factor, n) == IF n <= 0 THEN 100 ELSE (FxPow(factor, n - 1) * factor) \div 100

\* _calculate_wait_time before its last statement: the wait with the
\* category multiplier and the jitter; frac is time.time() % 1
raw_wait_time(config, state, frac) ==
    LET base_wait == config.base_wait_time
        powered == (base_wait * FxPow(state.backoff_factor, state.attempt_count)) \div 100
        wait_time == (powered * category_multiplier(state.error_category)) \div 100
        jitter == (((config.jitter_factor * wait_time) \div 100) * (50 - frac)) \div 100
    IN  wait_time + jitter

\* a mutant of rm_calculate_wait_time: the wait is not clamped
rm_calculate_wait_time_unclamped(config, state, frac) == raw_wait_time(config, state, frac)

\* _calculate_wait_time(state)
rm_calculate_wait_time(config, state, frac) ==
    Max(config.min_wait_time, Min(raw_wait_time(config, state, frac), config.max_wait_time))

\* _adjust_backoff_factor(state)
adjust_backoff_factor(state) ==
    IF state.error_category = "rate_limit"
    THEN Min((state.backoff_factor * 200) \div 100, 400)
    ELSE IF state.error_category = "network"
    THEN Min((state.backoff_factor * 150) \div 100, 300)
    ELSE IF state.attempt_count > 3
    THEN Min((state.backoff_factor * 120) \div 100, 200)
    ELSE state.backoff_factor

\* RetryManager.should_retry(task_id, error) on the entry of the task id:
\* the new RetryState and the pair returned
rm_should_retry(config, entry, task_id, error, frac) ==
    LET category == rm_categorize_error(error)
        state == IF entry = None
                 THEN [task_id |-> task_id, error_category |-> category, attempt_count |-> 0,
                       error_message |-> error.msg, backoff_factor |-> 100]
                 ELSE entry[1]
    IN  IF state.attempt_count >= get_max_retries(config, category)
        THEN [state |-> state, ret |-> [retry |-> FALSE, wait |-> 0]]
        ELSE LET wait_time == rm_calculate_wait_time(config, state, frac)
                 counted == [state EXCEPT !.attempt_count = @ + 1, !.error_message = error.msg]
             IN  [state |-> [counted EXCEPT !.backoff_factor = adjust_backoff_factor(counted)],
                  ret |-> [retry |-> TRUE, wait |-> wait_time]]

\* get_state(task_id)
get_state(task_id) == rm_states[task_id]

\* the task ids and the errors of the model, one error per category; the
\* type of an error is here the name of its class, type(error).__name__
RmTasks == {"t1"}
RmErrors ==
    {Exc(<<"C", "o", "n", "n", "e", "c", "t", "i", "o", "n", "E", "r", "r", "o", "r">>,
         <<"r", "e", "f", "u", "s", "e", "d">>),
     Exc(<<"E", "x", "c", "e", "p", "t", "i", "o", "n">>,
         <<"H", "T", "T", "P", " ", "4", "2", "9">>),
     Exc(<<"A", "P", "I", "E", "r", "r", "o", "r">>,
         <<"b", "a", "d", " ", "r", "e", "q", "u", "e", "s", "t">>),
     Exc(<<"V", "a", "l", "i", "d", "a", "t", "i", "o", "n", "E", "r", "r", "o", "r">>,
         <<"b", "a", "d", " ", "f", "i", "e", "l", "d">>),
     Exc(<<"E", "x", "c", "e", "p", "t", "i", "o", "n">>,
         <<"t", "i", "m", "e", "o", "u", "t", " ", "w", "a", "i", "t", "i", "n", "g">>),
     Exc(<<"E", "x", "c", "e", "p", "t", "i", "o", "n">>,
         <<"b", "o", "o", "m">>)}

\* time.time() % 1, in hundredths
Fractions == {0, 50, 99}

\* RetryConfig() of config/models.py with its defaults
RmDefaultConfig ==
    [max_network_retries |-> 3, max_rate_limit_retries |-> 5, max_api_retries |-> 3,
     max_validation_retries |-> 2, max_timeout_retries |-> 3, max_unknown_retries |-> 2,
     base_wait_time |-> 100, min_wait_time |-> 10, max_wait_time |-> 30000,
     jitter_factor |-> 10]

\* the configurations of the model: the defaults, and narrow wait limits
\* with a large jitter
RmConfigs ==
    {RmDefaultConfig,
     [RmDefaultConfig EXCEPT !.min_wait_time = 200, !.max_wait_time = 300, !.jitter_factor = 300]}

RmInit ==
    /\ rm_config \in RmConfigs
    /\ rm_states = [t \in RmTasks |-> None]
    /\ rm_ret = [t \in RmTasks |-> None]

RmIdle ==
    /\ rm_config = RmDefaultConfig
    /\ rm_states = [t \in RmTasks |-> None]
    /\ rm_ret = [t \in RmTasks |-> None]

\* should_retry(t, e), called when time.time() % 1 is frac
RmShouldRetry ==
    /\ \E t \in RmTasks, e \in RmErrors, frac \in Fractions :
          LET r == rm_should_retry(rm_config, rm_states[t], t, e, frac)
          IN  /\ rm_states' = [rm_states EXCEPT ![t] = Some(r.state)]
              /\ rm_ret' = [rm_ret EXCEPT ![t] = Some(r.ret)]
    /\ UNCHANGED rm_config
    /\ UNCHANGED <<cmVars, rhVars, clVars, pmVars, prVars, tqVars, rcVars, scVars>>

\* reset(t)
RmReset ==
    /\ \E t \in RmTasks :
          /\ rm_states' = [rm_states EXCEPT ![t] = None]
          /\ rm_ret' = [rm_ret EXCEPT ![t] = None]
    /\ UNCHANGED rm_config
    /\ UNCHANGED <<cmVars, rhVars, clVars, pmVars, prVars, tqVars, rcVars, scVars>>

RmNext == RmShouldRetry \/ RmReset

(***************************************************************************)
(* Properties of RetryHandler.should_retry                                 *)
(***************************************************************************)
\* the errors recorded for a task all fall in one category
SameCategory(history) ==
    \A i, j \in 1..Len(history) : history[i].category = history[j].category

C9_HandlerWaitClamped ==
    \A t \in RhTasks :
        (rh_ret[t] # None /\ rh_ret[t][1].retry) =>
            /\ rh_config.min_wait_time <= rh_ret[t][1].wait
            /\ rh_ret[t][1].wait <= rh_config.max_wait_time

\* the ErrorInfo of each error of a sequence, in order
RECURSIVE ErrorInfos(_)
ErrorInfos(errors) ==
    IF errors = <<>> THEN <<>>
    ELSE Append(ErrorInfos(SubSeq(errors, 1, Len(errors) - 1)),
                categorize_error(errors[Len(errors)]))

C29_BackoffSchedule ==
    \A t \in RhTasks :
        (rh_ret[t] # None /\ rh_ret[t][1].retry) =>
            LET history == retry_states[t][1].error_history
                k == Len(history)
                category == history[k].category
                base == rh_config.base_delay
            IN  /\ category \in {"network", "timeout", "api", "rate_limit", "unknown"}
                /\ (category \in {"network", "timeout"} \/ (category = "api" /\ k <= 2))
                      => rh_ret[t][1].wait = base * k
                /\ (category \in {"rate_limit", "unknown"} \/ (category = "api" /\ k > 2))
                      => rh_ret[t][1].wait = base * Pow2(k - 1)

\* a third failure of category api, after two of other categories with the
\* other strategy, is answered with a retry after base_delay * 4
C29_Witness ==
    \E t \in RhTasks :
        /\ rh_ret[t] # None
        /\ rh_ret[t][1].retry
        /\ Len(retry_states[t][1].error_history) = 3
        /\ retry_states[t][1].error_history[1].category = "network"
        /\ retry_states[t][1].error_history[2].category = "rate_limit"
        /\ retry_states[t][1].error_history[3].category = "api"
        /\ rh_ret[t][1].wait = rh_config.base_delay * 4

(***************************************************************************)
(* Properties of RetryHandler._categorize_error                            *)
(***************************************************************************)
\* the categories one of whose keywords occurs in the lowercased message
KeywordCategories(msg) ==
    {init_error_patterns[i][2] :
        i \in {j \in 1..Len(init_error_patterns) : Contains(init_error_patterns[j][1], lower(msg))}}

\* the precedence of the categories: network, rate_limit, api, timeout
DeclaredOrder == <<"network", "rate_limit", "api", "timeout">>

\* C10: an error of no recognised class whose message holds keywords of
\* several categories gets the first of them in the order network,
\* rate_limit, api, timeout, and unknown when it holds no keyword
C10_DeclaredPrecedence ==
    (cl_info # None /\ cl_error.type = "Exception") =>
        LET cats == KeywordCategories(cl_error.msg)
            first == CHOOSE i \in 1..Len(DeclaredOrder) :
                        /\ DeclaredOrder[i] \in cats
                        /\ \A j \in 1..(i - 1) : DeclaredOrder[j] \notin cats
        IN  cl_info[1].category = (IF cats = {} THEN "unknown" ELSE DeclaredOrder[first])

(***************************************************************************)
(* Properties of RetryManager.should_retry                                 *)
(***************************************************************************)
\* C7: once should_retry has returned (False, 0) for a task, every later
\* call for that task returns (False, 0) as well, whatever the error, until
\* the task is reset
C7_ExhaustedIsTerminal ==
    [][\A t \in RmTasks :
          (rm_ret[t] # None /\ ~rm_ret[t][1].retry /\ rm_ret'[t] # None) =>
              rm_ret'[t][1] = [retry |-> FALSE, wait |-> 0]]_vars

\* C8: with min_wait_time <= max_wait_time, every wait RetryManager
\* returns with a retry lies in [min_wait_time, max_wait_time]
C8_ManagerWaitClamped ==
    \A t \in RmTasks :
        (rm_config.min_wait_time <= rm_config.max_wait_time
            /\ rm_ret[t] # None /\ rm_ret[t][1].retry) =>
            /\ rm_config.min_wait_time <= rm_ret[t][1].wait
            /\ rm_ret[t][1].wait <= rm_config.max_wait_time

\* a third or later retry whose wait is the configured maximum
C8_Witness ==
    \E t \in RmTasks :
        /\ rm_config.min_wait_time <= rm_config.max_wait_time
        /\ rm_ret[t] # None
        /\ rm_ret[t][1].retry
        /\ rm_states[t][1].attempt_count >= 3
        /\ rm_ret[t][1].wait = rm_config.max_wait_time


\* C34: the category stored in the RetryState of a task is the category of
\* the latest error should_retry counted for it (the one whose message the
\* state holds), so the wait is computed with that category's multiplier
\* and adjustment.
C34_CategoryFollowsError ==
    \A t \in RmTasks :
        (rm_ret[t] # None /\ rm_ret[t][1].retry) =>
            \A e \in RmErrors :
                e.msg = rm_states[t][1].error_message =>
                    rm_states[t][1].error_category = rm_categorize_error(e)

(***************************************************************************)
(* ProgressManager (core/progress_manager.py)                              *)
(*                                                                         *)
(* Times are whole seconds of one clock;    the two readings of time.time()   *)
(* inside one call fall in the same second.  Costs are millionths of a     *)
(* dollar.  A TaskStatus is a str whose value is its JSON form, so a       *)
(* status is the same string in memory and in the file.  The file          *)
(* progress.json is written in place: open("w") empties it, json.dump      *)
(* fills it, and the process can crash in between.                         *)
(***************************************************************************)
\* TaskStatus
TaskStatus == {"pending", "running", "paused", "failed", "success"}

\* the paths, sizes and chunk counts of the files of the model
PmPaths == {"a.yml", "b.yml"}

\* FileProgress(...)
FileProgress(path, size, total_chunks, completed_chunks, tokens_used, start_time, last_update, status, error) ==
    [path |-> path, size |-> size, total_chunks |-> total_chunks,
     completed_chunks |-> completed_chunks, tokens_used |-> tokens_used,
     start_time |-> start_time, last_update |-> last_update, status |-> status,
     error |-> error]

\* SessionInfo(start_time=time.time(), last_update=time.time(), 0, 0, 0, 0.0, 0.0)
NewSessionInfo(t) ==
    [start_time |-> t, last_update |-> t, total_files |-> 0, completed_files |-> 0,
     total_tokens |-> 0, total_cost |-> 0, elapsed_time |-> 0]

\* _calculate_cost(tokens): (tokens / 1000) * 0.002 dollars, in millionths
calculate_cost(tokens) == tokens * 2

\* a mutant of PmIndexOf: no path is ever found
PmIndexOfNothing(files, path) == 0

\* _files is a dict in insertion order: a sequence of FileProgress with
\* distinct paths.  The position of a path in it, 0 if absent
RECURSIVE PmIndexOf(_, _)
PmIndexOf(files, path) ==
    IF files = <<>> THEN 0
    ELSE IF files[Len(files)].path = path /\ PmIndexOf(SubSeq(files, 1, Len(files) - 1), path) = 0
         THEN Len(files)
         ELSE PmIndexOf(SubSeq(files, 1, Len(files) - 1), path)

\* self._files[path] = progress
PmPut(files, progress) ==
    IF PmIndexOf(files, progress.path) = 0
    THEN Append(files, progress)
    ELSE [files EXCEPT ![PmIndexOf(files, progress.path)] = progress]

\* _update_session_time()
update_session_time(session, t) ==
    [session EXCEPT !.last_update = t, !.elapsed_time = t - session.start_time]

\* _should_save_progress(), called at time t
should_save_progress(config, session, t) == (t - session.last_update) >= config.save_interval

\* _save_progress: the data dumped, {"session": asdict(session), "files":
\* {path: asdict(progress)}, "timestamp": now}
PmData(session, files, t) ==
    [session |-> session,
     files |-> [i \in 1..Len(files) |-> <<files[i].path, files[i]>>],
     timestamp |-> t]

\* a mutant of load_files: only the first entry of "files" is restored
load_files_first_only(files, entries) ==
    IF entries = <<>> THEN files ELSE PmPut(files, entries[1][2])

\* _load_progress: for path, file_data in data["files"].items():
\*     self._files[path] = FileProgress(**file_data)
RECURSIVE load_files(_, _)
load_files(files, entries) ==
    IF entries = <<>> THEN files
    ELSE load_files(PmPut(files, entries[1][2]), SubSeq(entries, 2, Len(entries)))

\* the file progress.json: missing, emptied by open("w"), holding the first
\* part of a dump, or holding a complete dump
PmMissing == [kind |-> "missing", data |-> None, mtime |-> 0]
PmFile(kind, data, t) == [kind |-> kind, data |-> data, mtime |-> t]

\* get_pending_files() and get_failed_files()
get_pending_files(files) == SelectSeq(files, LAMBDA f : f.status \in {"pending", "paused"})
get_failed_files(files) == SelectSeq(files, LAMBDA f : f.status = "failed")

\* the configurations of the model
PmConfigs ==
    {[save_interval |-> 0, auto_resume |-> TRUE, keep_history |-> FALSE],
     [save_interval |-> MaxSaveInterval, auto_resume |-> TRUE, keep_history |-> TRUE],
     [save_interval |-> MaxSaveInterval, auto_resume |-> FALSE, keep_history |-> FALSE]}
PmIdleConfig == [save_interval |-> 0, auto_resume |-> FALSE, keep_history |-> FALSE]

\* the call in progress or last returned
PmOp(name, path, status, raised) ==
    [name |-> name, path |-> path, status |-> status, raised |-> raised]

\* ProgressManager(config) over an empty store, at time 0
PmInit ==
    /\ pm_clock = 0
    /\ pm_config \in PmConfigs
    /\ pm_pc = "ready"
    /\ pm_session = NewSessionInfo(0)
    /\ pm_files = <<>>
    /\ pm_disk = PmMissing
    /\ pm_history = {}
    /\ pm_pending = None
    /\ pm_saved = None
    /\ pm_op = PmOp("__init__", "", "", FALSE)
    /\ pm_calls = 0

PmIdle ==
    /\ pm_clock = 0
    /\ pm_config = PmIdleConfig
    /\ pm_pc = "ready"
    /\ pm_session = NewSessionInfo(0)
    /\ pm_files = <<>>
    /\ pm_disk = PmMissing
    /\ pm_history = {}
    /\ pm_pending = None
    /\ pm_saved = None
    /\ pm_op = PmOp("__init__", "", "", FALSE)
    /\ pm_calls = 0

\* _save_progress up to save_file.open("w"): the data is prepared and the
\* file is emptied; pm_saved is the state in memory the data was taken from
PmSaveBegin(session, files) ==
    /\ pm_pending' = Some(PmData(session, files, pm_clock))
    /\ pm_saved' = Some([session |-> session, files |-> files])
    /\ pm_disk' = PmFile("empty", None, pm_clock)
    /\ pm_pc' = "writing"

\* a call that does not save returns at once
PmNoSave ==
    /\ pm_pc' = "ready"
    /\ UNCHANGED <<pm_pending, pm_saved, pm_disk>>

\* add_file(path, size, total_chunks)
PmAddFile ==
    /\ pm_pc = "ready"
    /\ pm_calls < MaxPmCalls
    /\ pm_calls' = pm_calls + 1
    /\ \E path \in PmPaths, total_chunks \in {MaxChunks} :
          IF PmIndexOf(pm_files, path) # 0
          THEN /\ pm_op' = PmOp("add_file", path, "", TRUE)
               /\ PmNoSave
               /\ UNCHANGED <<pm_session, pm_files>>
          ELSE LET files == Append(pm_files,
                                FileProgress(path, 100, total_chunks, 0, 0, pm_clock, pm_clock,
                                             "pending", None))
                   session == [pm_session EXCEPT !.total_files = @ + 1]
               IN  /\ pm_op' = PmOp("add_file", path, "", FALSE)
                   /\ pm_files' = files
                   /\ pm_session' = session
                   /\ PmSaveBegin(session, files)
    /\ UNCHANGED <<pm_clock, pm_config, pm_history>>
    /\ UNCHANGED <<cmVars, rhVars, clVars, rmVars, prVars, tqVars, rcVars, scVars>>

\* update_file_progress(path, completed_chunks, tokens_used, status, error)
PmUpdateFileProgress ==
    /\ pm_pc = "ready"
    /\ pm_calls < MaxPmCalls
    /\ pm_calls' = pm_calls + 1
    /\ \E path \in PmPaths, completed_chunks \in 1..MaxChunks, tokens_used \in {10},
          status \in TaskStatus :
          LET error == IF status = "failed" THEN Some("boom") ELSE None
              i == PmIndexOf(pm_files, path)
          IN  IF i = 0
              THEN /\ pm_op' = PmOp("update_file_progress", path, status, TRUE)
                   /\ PmNoSave
                   /\ UNCHANGED <<pm_session, pm_files>>
              ELSE LET files == [pm_files EXCEPT ![i] =
                                    [@ EXCEPT !.completed_chunks = completed_chunks,
                                              !.tokens_used = tokens_used,
                                              !.last_update = pm_clock,
                                              !.status = status,
                                              !.error = error]]
                       counted == IF status \in {"success", "failed"}
                                  THEN [pm_session EXCEPT
                                           !.completed_files = @ + 1,
                                           !.total_tokens = @ + tokens_used,
                                           !.total_cost = @ + calculate_cost(tokens_used)]
                                  ELSE pm_session
                       session == update_session_time(counted, pm_clock)
                   IN  /\ pm_op' = PmOp("update_file_progress", path, status, FALSE)
                       /\ pm_files' = files
                       /\ pm_session' = session
                       /\ IF should_save_progress(pm_config, session, pm_clock)
                          THEN PmSaveBegin(session, files)
                          ELSE PmNoSave
    /\ UNCHANGED <<pm_clock, pm_config, pm_history>>
    /\ UNCHANGED <<cmVars, rhVars, clVars, rmVars, prVars, tqVars, rcVars, scVars>>

\* clear_progress()
PmClearProgress ==
    /\ pm_pc = "ready"
    /\ pm_calls < MaxPmCalls
    /\ pm_calls' = pm_calls + 1
    /\ pm_files' = <<>>
    /\ pm_session' = NewSessionInfo(pm_clock)
    /\ pm_op' = PmOp("clear_progress", "", "", FALSE)
    /\ PmSaveBegin(NewSessionInfo(pm_clock), <<>>)
    /\ UNCHANGED <<pm_clock, pm_config, pm_history>>
    /\ UNCHANGED <<cmVars, rhVars, clVars, rmVars, prVars, tqVars, rcVars, scVars>>

\* _save_progress, json.dump under way: a first part of the dump reaches
\* the file
PmWritePart ==
    /\ pm_pc = "writing"
    /\ pm_disk.kind = "empty"
    /\ pm_disk' = PmFile("partial", None, pm_clock)
    /\ UNCHANGED <<pm_clock, pm_config, pm_pc, pm_session, pm_files, pm_history, pm_pending,
                   pm_saved, pm_op, pm_calls>>
    /\ UNCHANGED <<cmVars, rhVars, clVars, rmVars, prVars, tqVars, rcVars, scVars>>

\* _save_progress from the end of json.dump: the file is complete, the
\* history file progress_<int(time.time())>.json is written if the
\* configuration keeps history, and the call returns
PmWriteClose ==
    /\ pm_pc = "writing"
    /\ pm_disk' = PmFile("complete", pm_pending[1], pm_clock)
    /\ pm_history' = IF pm_config.keep_history THEN pm_history \cup {pm_clock} ELSE pm_history
    /\ pm_pending' = None
    /\ pm_pc' = "ready"
    /\ UNCHANGED <<pm_clock, pm_config, pm_session, pm_files, pm_saved, pm_op, pm_calls>>
    /\ UNCHANGED <<cmVars, rhVars, clVars, rmVars, prVars, tqVars, rcVars, scVars>>

\* the process dies, in a call or between calls; the files stay as they are
PmCrash ==
    /\ pm_pc \in {"ready", "writing"}
    /\ pm_pc' = "down"
    /\ pm_session' = NewSessionInfo(0)
    /\ pm_files' = <<>>
    /\ pm_pending' = None
    /\ pm_op' = PmOp("crash", "", "", FALSE)
    /\ UNCHANGED <<pm_clock, pm_config, pm_disk, pm_history, pm_saved, pm_calls>>
    /\ UNCHANGED <<cmVars, rhVars, clVars, rmVars, prVars, tqVars, rcVars, scVars>>

\* ProgressManager(config) in a new process over the same store: __init__
\* and, with auto_resume, _load_progress
PmRestart ==
    /\ pm_pc = "down"
    /\ IF ~pm_config.auto_resume \/ pm_disk.kind = "missing"
       THEN /\ pm_pc' = "ready"
            /\ pm_session' = NewSessionInfo(pm_clock)
            /\ pm_files' = <<>>
            /\ pm_op' = PmOp("__init__", "", "", FALSE)
       ELSE IF pm_disk.kind = "complete"
       THEN /\ pm_pc' = "ready"
            /\ pm_session' = pm_disk.data.session
            /\ pm_files' = load_files(<<>>, pm_disk.data.files)
            /\ pm_op' = PmOp("__init__", "", "", FALSE)
       ELSE \* json.load raises; _load_progress raises ProgressError
            /\ pm_pc' = "down"
            /\ pm_session' = NewSessionInfo(0)
            /\ pm_files' = <<>>
            /\ pm_op' = PmOp("__init__", "", "", TRUE)
    /\ UNCHANGED <<pm_clock, pm_config, pm_disk, pm_history, pm_pending, pm_saved, pm_calls>>
    /\ UNCHANGED <<cmVars, rhVars, clVars, rmVars, prVars, tqVars, rcVars, scVars>>

\* a second passes
PmTick ==
    /\ pm_clock < MaxTime
    /\ pm_clock' = pm_clock + 1
    /\ UNCHANGED <<pm_config, pm_pc, pm_session, pm_files, pm_disk, pm_history, pm_pending,
                   pm_saved, pm_op, pm_calls>>
    /\ UNCHANGED <<cmVars, rhVars, clVars, rmVars, prVars, tqVars, rcVars, scVars>>

PmNext ==
    \/ PmAddFile
    \/ PmUpdateFileProgress
    \/ PmClearProgress
    \/ PmWritePart
    \/ PmWriteClose
    \/ PmCrash
    \/ PmRestart
    \/ PmTick

(***************************************************************************)
(* Properties of the ProgressManager                                       *)
(***************************************************************************)
TerminalStatus == {"success", "failed"}

\* the step is a call of update_file_progress that did not raise
PmUpdated ==
    /\ pm_calls' = pm_calls + 1
    /\ pm_op'.name = "update_file_progress"
    /\ ~pm_op'.raised

\* C11: a call of update_file_progress with a terminal status for a file
\* whose status is already terminal leaves the session's completed_files,
\* total_tokens and total_cost as they are: the file is counted once
C11_TerminalCountedOnce ==
    [][\A i \in 1..Len(pm_files) :
          (PmUpdated /\ pm_op'.path = pm_files[i].path
              /\ pm_op'.status \in TerminalStatus /\ pm_files[i].status \in TerminalStatus) =>
              /\ pm_session'.completed_files = pm_session.completed_files
              /\ pm_session'.total_tokens = pm_session.total_tokens
              /\ pm_session'.total_cost = pm_session.total_cost]_vars

\* the moves of a file's status: pending -> running -> {success, failed,
\* paused} and paused -> pending
StatusMoves ==
    {<<"pending", "running">>, <<"running", "success">>, <<"running", "failed">>,
     <<"running", "paused">>, <<"paused", "pending">>}

\* C12: update_file_progress changes the status of a file only along
\* pending -> running -> {success, failed, paused} and paused -> pending;
\* a status success or failed is never changed
C12_FileStateMachine ==
    [][PmUpdated =>
          \A i \in 1..Len(pm_files) :
              \/ pm_files'[i].status = pm_files[i].status
              \/ <<pm_files[i].status, pm_files'[i].status>> \in StatusMoves]_vars

\* C13: when update_file_progress has returned, the file on disk is no
\* older than save_interval seconds at the time of the update: a call made
\* more than save_interval after the last flush has flushed
C13_IntervalFlush ==
    (pm_pc = "ready" /\ pm_op.name = "update_file_progress" /\ ~pm_op.raised
        /\ pm_disk.kind = "complete") =>
        pm_session.last_update - pm_disk.mtime <= pm_config.save_interval

\* the session totals
PmTotals(session) ==
    <<session.total_files, session.completed_files, session.total_tokens, session.total_cost>>

C18_CorruptProgressTolerated ==
    (pm_op.name = "__init__" /\ pm_config.auto_resume) =>
        /\ ~pm_op.raised
        /\ pm_pc = "ready"
        /\ (pm_disk.kind # "complete") =>
              (pm_files = <<>> /\ PmTotals(pm_session) = <<0, 0, 0, 0>>)

\* C19: the state file holds a complete record whenever it exists: a reader
\* or a restarted process never finds it empty or partly written
C19_AtomicPersistence == pm_disk.kind \in {"missing", "complete"}

\* a call of add_file returns or raises
PmAdded ==
    /\ pm_calls' = pm_calls + 1
    /\ pm_op'.name = "add_file"

\* path is a key of self._files
PmRegistered(files, path) == \E i \in 1..Len(files) : files[i].path = path

\* C24: add_file on a path not yet registered adds it with status pending,
\* no completed chunks and no tokens, and counts it in total_files, leaving
\* the other files as they are; on a registered path it raises and leaves
\* every file record and the session as they are
C24_AddFileOnce ==
    [][PmAdded =>
          IF PmRegistered(pm_files, pm_op'.path)
          THEN /\ pm_op'.raised
               /\ pm_files' = pm_files
               /\ pm_session' = pm_session
          ELSE /\ ~pm_op'.raised
               /\ Len(pm_files') = Len(pm_files) + 1
               /\ SubSeq(pm_files', 1, Len(pm_files)) = pm_files
               /\ pm_files'[Len(pm_files')].path = pm_op'.path
               /\ pm_files'[Len(pm_files')].status = "pending"
               /\ pm_files'[Len(pm_files')].completed_chunks = 0
               /\ pm_files'[Len(pm_files')].tokens_used = 0
               /\ pm_session' = [pm_session EXCEPT !.total_files = @ + 1]]_vars

\* add_file has raised for a file that an update had moved out of pending,
\* next to another registered file
C24_Witness ==
    /\ pm_op.name = "add_file"
    /\ pm_op.raised
    /\ Len(pm_files) = 2
    /\ \E i \in 1..Len(pm_files) :
          /\ pm_files[i].path = pm_op.path
          /\ pm_files[i].status # "pending"
          /\ pm_files[i].completed_chunks > 0


\* the elements of a sequence
Range(xs) == {xs[i] : i \in 1..Len(xs)}

\* the files whose status is success
SuccessfulFiles(files) == SelectSeq(files, LAMBDA f : f.status = "success")

\* C35: after a ProgressManager was reconstructed by auto-resume, every
\* registered file whose status is neither success nor failed is among
\* get_pending_files(), and the pending, the failed and the successful
\* files together are the registered files.
C35_NoUnfinishedFileSkipped ==
    (pm_pc = "ready" /\ pm_op.name = "__init__" /\ pm_config.auto_resume) =>
        /\ \A f \in Range(pm_files) :
              f.status \notin {"success", "failed"} => f \in Range(get_pending_files(pm_files))
        /\ Range(pm_files) = Range(get_pending_files(pm_files))
                                \cup Range(get_failed_files(pm_files))
                                \cup Range(SuccessfulFiles(pm_files))

(***************************************************************************)
(* ProgressRecoveryManager (core/progress_recovery.py)                     *)
(*                                                                         *)
(* A session id is str(int(time.time())): the second the session started.  *)
(* The store holds one file <session id>.json per session; its st_mtime is *)
(* the rank of its last write among all writes.  _save_state writes in     *)
(* place like _save_progress.  Files are damaged only while no process     *)
(* runs.                                                                   *)
(***************************************************************************)
\* the task ids of the model and the file each stands for
PrTasks == {"t1", "t2"}
PrPath(task_id) == IF task_id = "t1" THEN "a.yml" ELSE "b.yml"

\* the session ids: the seconds of the clock
PrSessionIds == 0..MaxTime

\* list(s) for a set s, and set(l) for a list l
RECURSIVE SetToList(_)
SetToList(s) ==
    IF s = {} THEN <<>>
    ELSE LET x == CHOOSE x \in s : TRUE IN <<x>> \o SetToList(s \ {x})
ListToSet(l) == {l[i] : i \in 1..Len(l)}

\* TaskState(task_id, file_path, total_chunks, 0, set(), now, now, False)
NewTaskState(task_id, file_path, total_chunks, t) ==
    [task_id |-> task_id, file_path |-> file_path, total_chunks |-> total_chunks,
     completed_chunks |-> 0, failed_chunks |-> {}, start_time |-> t, last_update |-> t,
     is_completed |-> FALSE, error_message |-> None]

\* SessionState(session_id, now, now, total_files, 0, set(), 0, 0.0)
NewSessionState(session_id, total_files, t) ==
    [session_id |-> session_id, start_time |-> t, last_update |-> t,
     total_files |-> total_files, completed_files |-> 0, failed_files |-> {},
     total_tokens |-> 0, total_cost |-> 0]

\* _tasks is a dict in insertion order: a sequence of TaskState with
\* distinct task ids.  The position of a task id in it, 0 if absent
PrIndexOf(tasks, task_id) ==
    IF \E i \in 1..Len(tasks) : tasks[i].task_id = task_id
    THEN CHOOSE i \in 1..Len(tasks) : tasks[i].task_id = task_id
    ELSE 0

\* self._tasks[task.task_id] = task
PrPut(tasks, task) ==
    IF PrIndexOf(tasks, task.task_id) = 0
    THEN Append(tasks, task)
    ELSE [tasks EXCEPT ![PrIndexOf(tasks, task.task_id)] = task]

\* _should_save(), called at time t
should_save(config, session, t) ==
    IF session = None THEN FALSE ELSE (t - session[1].last_update) >= config.save_interval

\* a mutant of PrData: the failed files are left out of the dump
PrDataNoFailedFiles(session, tasks) ==
    [session |-> [session EXCEPT !.failed_files = <<>>],
     tasks |-> [i \in 1..Len(tasks) |->
                  [tasks[i] EXCEPT !.failed_chunks = SetToList(tasks[i].failed_chunks)]]]

\* _save_state: the data dumped, {"session": {**asdict(session),
\* "failed_files": list(...)}, "tasks": [{**asdict(task), "failed_chunks":
\* list(...)} for task in tasks]}
PrData(session, tasks) ==
    [session |-> [session EXCEPT !.failed_files = SetToList(session.failed_files)],
     tasks |-> [i \in 1..Len(tasks) |->
                  [tasks[i] EXCEPT !.failed_chunks = SetToList(tasks[i].failed_chunks)]]]

\* load_checkpoint: SessionState(**data["session"]) with failed_files made
\* a set
load_session(data) == [data.session EXCEPT !.failed_files = ListToSet(data.session.failed_files)]

\* load_checkpoint: the tasks restored from the first n entries of
\* data["tasks"], each with failed_chunks made a set
RECURSIVE load_tasks(_, _)
load_tasks(data, n) ==
    IF n = 0 THEN <<>>
    ELSE PrPut(load_tasks(data, n - 1),
               [data.tasks[n] EXCEPT !.failed_chunks = ListToSet(data.tasks[n].failed_chunks)])

\* a file of the store: missing, emptied by open("w"), holding the first
\* part of a dump, holding a complete dump, or damaged: bad_session is a
\* dump whose "session" lacks a field, bad_task one whose entry number bad
\* of "tasks" lacks a field
PrMissing == [kind |-> "missing", data |-> None, bad |-> 0, mtime |-> 0]
PrFile(kind, data, bad, mtime) == [kind |-> kind, data |-> data, bad |-> bad, mtime |-> mtime]

\* the session ids whose file exists: self._save_path.glob("*.json")
checkpoints(store) == {s \in DOMAIN store : store[s].kind # "missing"}

\* a mutant of latest_checkpoint: the checkpoint with the greatest name
latest_checkpoint_by_name(store) ==
    CHOOSE s \in checkpoints(store) : \A o \in checkpoints(store) : o <= s

\* _try_auto_resume: max(checkpoints, key=lambda p: p.stat().st_mtime)
latest_checkpoint(store) ==
    CHOOSE s \in checkpoints(store) : \A o \in checkpoints(store) : store[o].mtime <= store[s].mtime

\* load_checkpoint(session_id) from the try on, on a manager holding
\* session and tasks: the session and tasks it leaves and whether it raised
load_checkpoint(file, session, tasks) ==
    CASE file.kind \in {"empty", "partial", "bad_session"} ->
            [session |-> session, tasks |-> tasks, raised |-> TRUE]
      [] file.kind = "bad_task" ->
            [session |-> Some(load_session(file.data[1])),
             tasks |-> load_tasks(file.data[1], file.bad - 1), raised |-> TRUE]
      [] file.kind = "complete" ->
            [session |-> Some(load_session(file.data[1])),
             tasks |-> load_tasks(file.data[1], Len(file.data[1].tasks)), raised |-> FALSE]

\* the configurations of the model
PrConfigs ==
    {[save_interval |-> 0, auto_resume |-> TRUE],
     [save_interval |-> MaxSaveInterval, auto_resume |-> TRUE],
     [save_interval |-> MaxSaveInterval, auto_resume |-> FALSE]}

\* the call in progress or last returned
PrOp(name, raised) == [name |-> name, raised |-> raised]

\* ProgressRecoveryManager(config) over an empty store, at time 0
PrInit ==
    /\ pr_clock = 0
    /\ pr_config \in PrConfigs
    /\ pr_pc = "ready"
    /\ pr_session = None
    /\ pr_tasks = <<>>
    /\ pr_store = [s \in PrSessionIds |-> PrMissing]
    /\ pr_writes = 0
    /\ pr_mtime = [s \in PrSessionIds |-> 0]
    /\ pr_pending = None
    /\ pr_saved = [s \in PrSessionIds |-> None]
    /\ pr_op = PrOp("__init__", FALSE)
    /\ pr_calls = 0

PrIdle ==
    /\ pr_clock = 0
    /\ pr_config = [save_interval |-> 0, auto_resume |-> FALSE]
    /\ pr_pc = "ready"
    /\ pr_session = None
    /\ pr_tasks = <<>>
    /\ pr_store = [s \in PrSessionIds |-> PrMissing]
    /\ pr_writes = 0
    /\ pr_mtime = [s \in PrSessionIds |-> 0]
    /\ pr_pending = None
    /\ pr_saved = [s \in PrSessionIds |-> None]
    /\ pr_op = PrOp("__init__", FALSE)
    /\ pr_calls = 0

\* a call that does not save returns at once
PrNoSave ==
    /\ pr_pc' = "ready"
    /\ UNCHANGED <<pr_store, pr_writes, pr_mtime, pr_pending, pr_saved>>

\* _save_state up to open(checkpoint_file, "w"): the data is prepared and
\* the file of the session is emptied; pr_saved keeps the session and tasks
\* in memory the data was taken from
PrSaveBegin(session, tasks) ==
    IF session = None
    THEN PrNoSave
    ELSE /\ pr_pending' = Some(PrData(session[1], tasks))
         /\ pr_saved' = [pr_saved EXCEPT ![session[1].session_id] =
                            Some([session |-> session[1], tasks |-> tasks])]
         /\ pr_writes' = pr_writes + 1
         /\ pr_mtime' = [pr_mtime EXCEPT ![session[1].session_id] = pr_clock]
         /\ pr_store' = [pr_store EXCEPT ![session[1].session_id] =
                            PrFile("empty", None, 0, pr_writes + 1)]
         /\ pr_pc' = "writing"

\* start_session(total_files)
PrStartSession ==
    /\ pr_pc = "ready"
    /\ pr_calls < MaxPrCalls
    /\ pr_calls' = pr_calls + 1
    /\ \E total_files \in {2} :
          LET session == Some(NewSessionState(pr_clock, total_files, pr_clock))
          IN  /\ pr_session' = session
              /\ PrSaveBegin(session, pr_tasks)
    /\ pr_op' = PrOp("start_session", FALSE)
    /\ UNCHANGED <<pr_clock, pr_config, pr_tasks>>
    /\ UNCHANGED <<cmVars, rhVars, clVars, rmVars, pmVars, tqVars, rcVars, scVars>>

\* add_task(task_id, file_path, total_chunks)
PrAddTask ==
    /\ pr_pc = "ready"
    /\ pr_calls < MaxPrCalls
    /\ pr_calls' = pr_calls + 1
    /\ \E task_id \in PrTasks :
          IF pr_session = None
          THEN /\ pr_op' = PrOp("add_task", TRUE)
               /\ PrNoSave
               /\ UNCHANGED pr_tasks
          ELSE LET tasks == PrPut(pr_tasks,
                                  NewTaskState(task_id, PrPath(task_id), MaxChunks, pr_clock))
               IN  /\ pr_op' = PrOp("add_task", FALSE)
                   /\ pr_tasks' = tasks
                   /\ IF should_save(pr_config, pr_session, pr_clock)
                      THEN PrSaveBegin(pr_session, tasks)
                      ELSE PrNoSave
    /\ UNCHANGED <<pr_clock, pr_config, pr_session>>
    /\ UNCHANGED <<cmVars, rhVars, clVars, rmVars, pmVars, tqVars, rcVars, scVars>>

\* the arguments update_task is called with: some chunks completed with
\* their tokens and cost, or a failed chunk with its message
PrUpdates ==
    {[completed_chunks |-> Some(c), failed_chunk |-> None, error_message |-> None,
      tokens |-> Some(10), cost |-> Some(20)] : c \in 1..MaxChunks}
    \cup {[completed_chunks |-> None, failed_chunk |-> Some(0),
           error_message |-> Some("boom"), tokens |-> None, cost |-> None]}

\* update_task(task_id, completed_chunks, failed_chunk, error_message, tokens, cost)
PrUpdateTask ==
    /\ pr_pc = "ready"
    /\ pr_calls < MaxPrCalls
    /\ pr_calls' = pr_calls + 1
    /\ \E task_id \in PrTasks, u \in PrUpdates :
          LET i == PrIndexOf(pr_tasks, task_id)
          IN  IF pr_session = None \/ i = 0
              THEN /\ pr_op' = PrOp("update_task", TRUE)
                   /\ PrNoSave
                   /\ UNCHANGED <<pr_tasks, pr_session>>
              ELSE LET t0 == pr_tasks[i]
                       t1 == IF u.completed_chunks # None
                             THEN [t0 EXCEPT !.completed_chunks = u.completed_chunks[1]] ELSE t0
                       t2 == IF u.failed_chunk # None
                             THEN [t1 EXCEPT !.failed_chunks = @ \cup {u.failed_chunk[1]}] ELSE t1
                       t3 == IF u.error_message # None
                             THEN [t2 EXCEPT !.error_message = u.error_message] ELSE t2
                       t4 == [t3 EXCEPT !.last_update = pr_clock]
                       done == t4.completed_chunks = t4.total_chunks
                       task == IF done THEN [t4 EXCEPT !.is_completed = TRUE] ELSE t4
                       s0 == pr_session[1]
                       s1 == IF done THEN [s0 EXCEPT !.completed_files = @ + 1] ELSE s0
                       s2 == IF u.tokens # None
                             THEN [s1 EXCEPT !.total_tokens = @ + u.tokens[1]] ELSE s1
                       s3 == IF u.cost # None
                             THEN [s2 EXCEPT !.total_cost = @ + u.cost[1]] ELSE s2
                       session == Some([s3 EXCEPT !.last_update = pr_clock])
                       tasks == [pr_tasks EXCEPT ![i] = task]
                   IN  /\ pr_op' = PrOp("update_task", FALSE)
                       /\ pr_tasks' = tasks
                       /\ pr_session' = session
                       /\ IF should_save(pr_config, session, pr_clock)
                          THEN PrSaveBegin(session, tasks)
                          ELSE PrNoSave
    /\ UNCHANGED <<pr_clock, pr_config>>
    /\ UNCHANGED <<cmVars, rhVars, clVars, rmVars, pmVars, tqVars, rcVars, scVars>>

\* mark_task_failed(task_id, error)
PrMarkTaskFailed ==
    /\ pr_pc = "ready"
    /\ pr_calls < MaxPrCalls
    /\ pr_calls' = pr_calls + 1
    /\ \E task_id \in PrTasks :
          LET i == PrIndexOf(pr_tasks, task_id)
          IN  IF pr_session = None \/ i = 0
              THEN /\ pr_op' = PrOp("mark_task_failed", TRUE)
                   /\ PrNoSave
                   /\ UNCHANGED <<pr_tasks, pr_session>>
              ELSE LET task == [pr_tasks[i] EXCEPT !.error_message = Some("boom"),
                                                   !.last_update = pr_clock]
                       session == Some([pr_session[1] EXCEPT
                                           !.failed_files = @ \cup {task.file_path},
                                           !.last_update = pr_clock])
                       tasks == [pr_tasks EXCEPT ![i] = task]
                   IN  /\ pr_op' = PrOp("mark_task_failed", FALSE)
                       /\ pr_tasks' = tasks
                       /\ pr_session' = session
                       /\ PrSaveBegin(session, tasks)
    /\ UNCHANGED <<pr_clock, pr_config>>
    /\ UNCHANGED <<cmVars, rhVars, clVars, rmVars, pmVars, tqVars, rcVars, scVars>>

\* save_checkpoint()
PrSaveCheckpoint ==
    /\ pr_pc = "ready"
    /\ pr_calls < MaxPrCalls
    /\ pr_calls' = pr_calls + 1
    /\ IF pr_session = None
       THEN /\ pr_op' = PrOp("save_checkpoint", TRUE)
            /\ PrNoSave
       ELSE /\ pr_op' = PrOp("save_checkpoint", FALSE)
            /\ PrSaveBegin(pr_session, pr_tasks)
    /\ UNCHANGED <<pr_clock, pr_config, pr_session, pr_tasks>>
    /\ UNCHANGED <<cmVars, rhVars, clVars, rmVars, pmVars, tqVars, rcVars, scVars>>

\* load_checkpoint(session_id)
PrLoadCheckpoint ==
    /\ pr_pc = "ready"
    /\ pr_calls < MaxPrCalls
    /\ pr_calls' = pr_calls + 1
    /\ \E session_id \in PrSessionIds :
          IF pr_store[session_id].kind = "missing"
          THEN /\ pr_op' = PrOp("load_checkpoint", TRUE)
               /\ UNCHANGED <<pr_session, pr_tasks>>
          ELSE LET r == load_checkpoint(pr_store[session_id], pr_session, pr_tasks)
               IN  /\ pr_op' = PrOp("load_checkpoint", r.raised)
                   /\ pr_session' = r.session
                   /\ pr_tasks' = r.tasks
    /\ PrNoSave
    /\ UNCHANGED <<pr_clock, pr_config>>
    /\ UNCHANGED <<cmVars, rhVars, clVars, rmVars, pmVars, tqVars, rcVars, scVars>>

\* _save_state, json.dump under way: a first part of the dump reaches the
\* file
PrWritePart ==
    /\ pr_pc = "writing"
    /\ \E s \in PrSessionIds :
          /\ pr_store[s].kind = "empty"
          /\ pr_store[s].mtime = pr_writes
          /\ pr_store' = [pr_store EXCEPT ![s].kind = "partial"]
          /\ pr_mtime' = [pr_mtime EXCEPT ![s] = pr_clock]
    /\ UNCHANGED <<pr_clock, pr_config, pr_pc, pr_session, pr_tasks, pr_writes, pr_pending,
                   pr_saved, pr_op, pr_calls>>
    /\ UNCHANGED <<cmVars, rhVars, clVars, rmVars, pmVars, tqVars, rcVars, scVars>>

\* _save_state from the end of json.dump: the file is complete and the
\* call returns
PrWriteClose ==
    /\ pr_pc = "writing"
    /\ pr_store' = [pr_store EXCEPT ![pr_session[1].session_id] =
                       PrFile("complete", pr_pending, 0, pr_writes)]
    /\ pr_mtime' = [pr_mtime EXCEPT ![pr_session[1].session_id] = pr_clock]
    /\ pr_pending' = None
    /\ pr_pc' = "ready"
    /\ UNCHANGED <<pr_clock, pr_config, pr_session, pr_tasks, pr_writes, pr_saved, pr_op,
                   pr_calls>>
    /\ UNCHANGED <<cmVars, rhVars, clVars, rmVars, pmVars, tqVars, rcVars, scVars>>

\* the process dies, in a call or between calls; the files stay as they are
PrCrash ==
    /\ pr_pc \in {"ready", "writing"}
    /\ pr_pc' = "down"
    /\ pr_session' = None
    /\ pr_tasks' = <<>>
    /\ pr_pending' = None
    /\ pr_op' = PrOp("crash", FALSE)
    /\ UNCHANGED <<pr_clock, pr_config, pr_store, pr_writes, pr_mtime, pr_saved, pr_calls>>
    /\ UNCHANGED <<cmVars, rhVars, clVars, rmVars, pmVars, tqVars, rcVars, scVars>>

\* while no process runs, a complete file of the store is damaged: its
\* "session" loses a field, or one entry of its "tasks" does
PrDamage ==
    /\ pr_pc = "down"
    /\ \E s \in PrSessionIds :
          /\ pr_store[s].kind = "complete"
          /\ \/ pr_store' = [pr_store EXCEPT ![s].kind = "bad_session"]
             \/ \E k \in 1..Len(pr_store[s].data[1].tasks) :
                   pr_store' = [pr_store EXCEPT ![s].kind = "bad_task", ![s].bad = k]
    /\ UNCHANGED <<pr_clock, pr_config, pr_pc, pr_session, pr_tasks, pr_writes, pr_mtime, pr_pending,
                   pr_saved, pr_op, pr_calls>>
    /\ UNCHANGED <<cmVars, rhVars, clVars, rmVars, pmVars, tqVars, rcVars, scVars>>

\* ProgressRecoveryManager(config) in a new process over the same store:
\* __init__ and, with auto_resume, _try_auto_resume, which logs what
\* load_checkpoint raises
PrRestart ==
    /\ pr_pc = "down"
    /\ pr_pc' = "ready"
    /\ pr_op' = PrOp("__init__", FALSE)
    /\ IF ~pr_config.auto_resume \/ checkpoints(pr_store) = {}
       THEN /\ pr_session' = None
            /\ pr_tasks' = <<>>
       ELSE LET r == load_checkpoint(pr_store[latest_checkpoint(pr_store)], None, <<>>)
            IN  /\ pr_session' = r.session
                /\ pr_tasks' = r.tasks
    /\ UNCHANGED <<pr_clock, pr_config, pr_store, pr_writes, pr_mtime, pr_pending, pr_saved, pr_calls>>
    /\ UNCHANGED <<cmVars, rhVars, clVars, rmVars, pmVars, tqVars, rcVars, scVars>>

\* RecoveryConfig.max_checkpoint_age, in seconds (7 days)
max_checkpoint_age == 604800

\* what cleanup_old_checkpoints(max_age) leaves of the store at time t:
\* every file of the directory whose age t - st_mtime exceeds the limit is
\* unlinked; the limit is the configured one when max_age is None or 0
\* ("if not max_age")
cleanup_old_checkpoints(store, mtimes, max_age, t) ==
    LET limit == IF max_age = None \/ max_age[1] = 0 THEN max_checkpoint_age ELSE max_age[1]
    IN  [s \in DOMAIN store |->
            IF store[s].kind # "missing" /\ t - mtimes[s] > limit
            THEN PrMissing
            ELSE store[s]]

\* the max_age arguments of the model
PrMaxAges == {None, Some(0), Some(1)}

\* the call in progress or last returned, for cleanup_old_checkpoints
PrCleanupOp(max_age) == [name |-> "cleanup_old_checkpoints", raised |-> FALSE,
                         max_age |-> max_age]

\* cleanup_old_checkpoints(max_age)
PrCleanupOldCheckpoints ==
    /\ pr_pc = "ready"
    /\ pr_calls < MaxPrCalls
    /\ pr_calls' = pr_calls + 1
    /\ \E max_age \in PrMaxAges :
          /\ pr_store' = cleanup_old_checkpoints(pr_store, pr_mtime, max_age, pr_clock)
          /\ pr_op' = PrCleanupOp(max_age)
    /\ UNCHANGED <<pr_clock, pr_config, pr_pc, pr_session, pr_tasks, pr_writes, pr_mtime,
                   pr_pending, pr_saved>>
    /\ UNCHANGED <<cmVars, rhVars, clVars, rmVars, pmVars, tqVars, rcVars, scVars>>

\* a second passes
PrTick ==
    /\ pr_clock < MaxTime
    /\ pr_clock' = pr_clock + 1
    /\ UNCHANGED <<pr_config, pr_pc, pr_session, pr_tasks, pr_store, pr_writes, pr_mtime, pr_pending,
                   pr_saved, pr_op, pr_calls>>
    /\ UNCHANGED <<cmVars, rhVars, clVars, rmVars, pmVars, tqVars, rcVars, scVars>>

PrNext ==
    \/ PrStartSession
    \/ PrAddTask
    \/ PrUpdateTask
    \/ PrMarkTaskFailed
    \/ PrSaveCheckpoint
    \/ PrLoadCheckpoint
    \/ PrWritePart
    \/ PrWriteClose
    \/ PrCrash
    \/ PrDamage
    \/ PrRestart
    \/ PrCleanupOldCheckpoints
    \/ PrTick

(***************************************************************************)
(* Properties of the ProgressRecoveryManager                               *)
(***************************************************************************)
\* the file of the active session holds a complete dump from which
\* load_checkpoint restores the session and the tasks in memory
PrPersistedIsMemory ==
    LET file == pr_store[pr_session[1].session_id]
    IN  /\ file.kind = "complete"
        /\ load_session(file.data[1]) = pr_session[1]
        /\ load_tasks(file.data[1], Len(file.data[1].tasks)) = pr_tasks

\* C14: when mark_task_failed or save_checkpoint has returned, the file of
\* the active session holds the session in memory, its failed_files
\* included, and the tasks in memory, whatever the save_interval and the
\* time since the last flush
C14_UnconditionalFlush ==
    (pr_pc = "ready" /\ pr_op.name \in {"mark_task_failed", "save_checkpoint"}
        /\ ~pr_op.raised) =>
        (pr_session # None /\ PrPersistedIsMemory)

\* mark_task_failed has returned under a positive save_interval, for a task
\* that had made progress since the session was started
C14_Witness ==
    /\ pr_pc = "ready"
    /\ pr_op = PrOp("mark_task_failed", FALSE)
    /\ pr_config.save_interval > 0
    /\ pr_session # None
    /\ pr_session[1].failed_files # {}
    /\ \E i \in 1..Len(pr_tasks) :
          pr_tasks[i].completed_chunks > 0 /\ pr_tasks[i].error_message # None

\* the manager was constructed with auto_resume over a store whose most
\* recently written file is that of session id s
PrResumedFrom(s) ==
    /\ pr_pc = "ready"
    /\ pr_op.name = "__init__"
    /\ pr_config.auto_resume
    /\ pr_store[s].kind # "missing"
    /\ \A o \in PrSessionIds : pr_store[o].kind # "missing" => pr_store[o].mtime <= pr_store[s].mtime

C17_CorruptCheckpointTolerated ==
    /\ (pr_pc = "ready" /\ pr_op.name = "__init__" /\ pr_config.auto_resume
           /\ checkpoints(pr_store) = {}) =>
           (pr_session = None /\ pr_tasks = <<>>)
    /\ \A s \in PrSessionIds :
           (PrResumedFrom(s) /\ pr_store[s].kind # "complete") =>
               (pr_session = None /\ pr_tasks = <<>>)

\* C22: no silent completion: in every state a task with is_completed has
\* completed_chunks = total_chunks
C22_CompletedMeansAllChunks ==
    \A i \in 1..Len(pr_tasks) :
        pr_tasks[i].is_completed => pr_tasks[i].completed_chunks = pr_tasks[i].total_chunks

\* a call of start_session returns
PrStarted ==
    /\ pr_calls' = pr_calls + 1
    /\ pr_op'.name = "start_session"

\* C23: the identifier start_session returns is the identifier of no
\* session file already in the store: starting a session overwrites no
\* persisted record
C23_SessionIdUnique ==
    [][PrStarted => pr_store[pr_session'[1].session_id].kind = "missing"]_vars

\* a call of cleanup_old_checkpoints returns
PrCleaned ==
    /\ pr_calls' = pr_calls + 1
    /\ pr_op'.name = "cleanup_old_checkpoints"

\* the age of the file of session s, as cleanup_old_checkpoints reads it
PrAge(s) == pr_clock - pr_mtime[s]

\* C25: cleanup_old_checkpoints(max_age) with a max_age given removes the
\* session files older than max_age and no other, leaves the files it
\* keeps, the session and the tasks in memory as they are; and a file
\* leaves the store in no other step
C25_Retention ==
    [][/\ (PrCleaned /\ pr_op'.max_age # None) =>
              /\ \A s \in PrSessionIds :
                    pr_store'[s] = IF pr_store[s].kind # "missing"
                                        /\ PrAge(s) > pr_op'.max_age[1]
                                   THEN PrMissing
                                   ELSE pr_store[s]
              /\ pr_session' = pr_session
              /\ pr_tasks' = pr_tasks
       /\ (\E s \in PrSessionIds : pr_store[s].kind # "missing" /\ pr_store'[s].kind = "missing")
              => PrCleaned]_vars

\* the same for a max_age of at least one second
C25_RetentionPositive ==
    [][/\ (PrCleaned /\ pr_op'.max_age # None /\ pr_op'.max_age[1] > 0) =>
              /\ \A s \in PrSessionIds :
                    pr_store'[s] = IF pr_store[s].kind # "missing"
                                        /\ PrAge(s) > pr_op'.max_age[1]
                                   THEN PrMissing
                                   ELSE pr_store[s]
              /\ pr_session' = pr_session
              /\ pr_tasks' = pr_tasks
       /\ (\E s \in PrSessionIds : pr_store[s].kind # "missing" /\ pr_store'[s].kind = "missing")
              => PrCleaned]_vars


\* the tasks in memory that are completed
PrCompleted == {i \in 1..Len(pr_tasks) : pr_tasks[i].is_completed}

\* C36: in every state with a session, session.completed_files is the
\* number of tasks whose is_completed is true, and is at most the number
\* of tasks: a task is counted once, whatever update_task calls follow
\* its completion.
C36_CompletedCountedOnce ==
    pr_session # None =>
        /\ pr_session[1].completed_files = Cardinality(PrCompleted)
        /\ pr_session[1].completed_files <= Len(pr_tasks)

\* a completed task was counted more than once: an observation, not a claim
PrOvercounted ==
    /\ pr_session # None
    /\ pr_session[1].completed_files > Len(pr_tasks)

\* C37: when start_session has returned, the manager holds no task, and
\* the file of the new session holds no task, zero completed_files,
\* total_tokens and total_cost and no failed file.
C37_StartSessionEmptyLedger ==
    (pr_pc = "ready" /\ pr_op.name = "start_session") =>
        /\ pr_tasks = <<>>
        /\ LET file == pr_store[pr_session[1].session_id]
           IN  /\ file.kind = "complete"
               /\ file.data[1].tasks = <<>>
               /\ file.data[1].session.completed_files = 0
               /\ file.data[1].session.total_tokens = 0
               /\ file.data[1].session.total_cost = 0
               /\ file.data[1].session.failed_files = <<>>

(***************************************************************************)
(* TranslationQueue (core/translation_queue.py)                            *)
(*                                                                         *)
(* The queue runs on one asyncio event loop: a coroutine runs alone from   *)
(* one await to the next.  process_queue awaits only when it finds no task *)
(* to start; _process_task awaits the semaphore when it is taken, and the  *)
(* call client.translate.                                                  *)
(***************************************************************************)
\* the task ids and priorities add_task is called with
TqIds == {"k1", "k2", "k3"}
TqPriorities == {0, 1}

\* TranslationTask(id, content, system_prompt, context, priority)
TranslationTask(id, priority) ==
    [id |-> id, result |-> None, error |-> None, status |-> "pending", priority |-> priority]

\* a mutant of insert_task: before the first task of lower or equal priority
RECURSIVE insert_task_before_equal(_, _)
insert_task_before_equal(tasks, task) ==
    IF tasks = <<>> THEN <<task>>
    ELSE IF task.priority >= tasks[1].priority THEN <<task>> \o tasks
    ELSE <<tasks[1]>> \o insert_task_before_equal(Tail(tasks), task)

\* _insert_task(task): before the first task of lower priority
RECURSIVE insert_task(_, _)
insert_task(tasks, task) ==
    IF tasks = <<>> THEN <<task>>
    ELSE IF task.priority > tasks[1].priority THEN <<task>> \o tasks
    ELSE <<tasks[1]>> \o insert_task(Tail(tasks), task)

\* a mutant of get_next_tasks: once a task has failed, no task is started
get_next_tasks_until_failure(tasks, processing, max_concurrent) ==
    IF Cardinality(processing) >= max_concurrent
          \/ \E i \in 1..Len(tasks) : tasks[i].status = "failed"
    THEN <<>>
    ELSE SelectSeq(tasks, LAMBDA t : t.status = "pending")

\* process_queue from one sleep to the next: while _get_next_task() finds
\* a task, a coroutine _process_task(task) is created for it.  No
\* coroutine runs meanwhile, so len(_processing) stays what it was: the
\* pending tasks leave the queue in order, all of them or none
get_next_tasks(tasks, processing, max_concurrent) ==
    IF Cardinality(processing) >= max_concurrent
    THEN <<>>
    ELSE SelectSeq(tasks, LAMBDA t : t.status = "pending")

\* the queue after these _get_next_task() calls
without_next_tasks(tasks, processing, max_concurrent) ==
    IF Cardinality(processing) >= max_concurrent
    THEN tasks
    ELSE SelectSeq(tasks, LAMBDA t : t.status # "pending")

\* a mutant of semaphore_free: the semaphore never makes a caller wait
semaphore_free_always(value) == TRUE

\* asyncio.Semaphore.acquire returns at once, or wakes up, when the value
\* is positive
semaphore_free(value) == value > 0

\* the calls of client.translate in flight
InFlight == {i \in 1..Len(tq_coros) : tq_coros[i].pc = "translating"}

TqInit ==
    /\ tq_config \in [max_concurrent : 1..MaxConcurrent]
    /\ tq_tasks = <<>>
    /\ tq_processing = {}
    /\ tq_semaphore = tq_config.max_concurrent
    /\ tq_events = [id \in TqIds |-> "none"]
    /\ tq_coros = <<>>
    /\ tq_added = 0
    /\ tq_log = <<>>

TqIdle ==
    /\ tq_config = [max_concurrent |-> 1]
    /\ tq_tasks = <<>>
    /\ tq_processing = {}
    /\ tq_semaphore = 1
    /\ tq_events = [id \in TqIds |-> "none"]
    /\ tq_coros = <<>>
    /\ tq_added = 0
    /\ tq_log = <<>>

\* add_task(content, system_prompt, task_id, context, priority); a task id
\* that is being processed or is in the queue raises QueueError
TqAddTask ==
    /\ tq_added < MaxAdded
    /\ tq_added' = tq_added + 1
    /\ \E task_id \in TqIds, priority \in TqPriorities :
          IF task_id \in tq_processing \/ \E i \in 1..Len(tq_tasks) : tq_tasks[i].id = task_id
          THEN UNCHANGED <<tq_tasks, tq_events, tq_log>>
          ELSE /\ tq_events' = [tq_events EXCEPT ![task_id] = "clear"]
               /\ tq_log' = Append(tq_log, task_id)
               /\ tq_tasks' = insert_task(tq_tasks, TranslationTask(task_id, priority))
    /\ UNCHANGED <<tq_config, tq_processing, tq_semaphore, tq_coros>>
    /\ UNCHANGED <<cmVars, rhVars, clVars, rmVars, pmVars, prVars, rcVars, scVars>>

\* process_queue, from one asyncio.sleep(0.1) to the next
TqProcessQueue ==
    /\ LET next == get_next_tasks(tq_tasks, tq_processing, tq_config.max_concurrent)
       IN  /\ next # <<>>
           /\ tq_coros' = tq_coros \o [i \in 1..Len(next) |-> [task |-> next[i], pc |-> "created"]]
           /\ tq_tasks' = without_next_tasks(tq_tasks, tq_processing, tq_config.max_concurrent)
    /\ UNCHANGED <<tq_config, tq_processing, tq_semaphore, tq_events, tq_added, tq_log>>
    /\ UNCHANGED <<cmVars, rhVars, clVars, rmVars, pmVars, prVars, rcVars, scVars>>

\* _process_task(task) from its start to its first await: the task joins
\* _processing and is running; the semaphore is taken if it is free and
\* client.translate is called, else the coroutine waits for the semaphore
TqProcessTaskStart ==
    /\ \E i \in 1..Len(tq_coros) :
          /\ tq_coros[i].pc = "created"
          /\ tq_processing' = tq_processing \cup {tq_coros[i].task.id}
          /\ IF semaphore_free(tq_semaphore)
             THEN /\ tq_semaphore' = tq_semaphore - 1
                  /\ tq_coros' = [tq_coros EXCEPT ![i].task.status = "running",
                                                  ![i].pc = "translating"]
             ELSE /\ tq_semaphore' = tq_semaphore
                  /\ tq_coros' = [tq_coros EXCEPT ![i].task.status = "running",
                                                  ![i].pc = "waiting"]
    /\ UNCHANGED <<tq_config, tq_tasks, tq_events, tq_added, tq_log>>
    /\ UNCHANGED <<cmVars, rhVars, clVars, rmVars, pmVars, prVars, rcVars, scVars>>

\* _process_task(task) woken by the semaphore: client.translate is called
TqAcquire ==
    /\ \E i \in 1..Len(tq_coros) :
          /\ tq_coros[i].pc = "waiting"
          /\ semaphore_free(tq_semaphore)
          /\ tq_semaphore' = tq_semaphore - 1
          /\ tq_coros' = [tq_coros EXCEPT ![i].pc = "translating"]
    /\ UNCHANGED <<tq_config, tq_tasks, tq_processing, tq_events, tq_added, tq_log>>
    /\ UNCHANGED <<cmVars, rhVars, clVars, rmVars, pmVars, prVars, rcVars, scVars>>

\* _process_task(task) from the end of client.translate, which returned
\* (ok) or raised, to its own end: the semaphore is released, the task is
\* completed or failed, leaves _processing, returns to the queue, and its
\* event is set.  _processing.remove raises KeyError if a task of the same
\* id has left already, and the rest is not done
TqTranslateDone ==
    /\ \E i \in 1..Len(tq_coros), ok \in BOOLEAN :
          LET c == tq_coros[i]
              task == IF ok
                      THEN [c.task EXCEPT !.result = Some("translated"), !.status = "completed"]
                      ELSE [c.task EXCEPT !.error = Some("boom"), !.status = "failed"]
          IN  /\ c.pc = "translating"
              /\ tq_semaphore' = tq_semaphore + 1
              /\ tq_coros' = RemoveAt(tq_coros, i)
              /\ tq_processing' = tq_processing \ {c.task.id}
              /\ IF c.task.id \in tq_processing
                 THEN /\ tq_tasks' = Append(tq_tasks, task)
                      /\ tq_events' = [tq_events EXCEPT ![c.task.id] =
                                          IF @ = "none" THEN "none" ELSE "set"]
                 ELSE UNCHANGED <<tq_tasks, tq_events>>
    /\ UNCHANGED <<tq_config, tq_added, tq_log>>
    /\ UNCHANGED <<cmVars, rhVars, clVars, rmVars, pmVars, prVars, rcVars, scVars>>

TqNext ==
    \/ TqAddTask
    \/ TqProcessQueue
    \/ TqProcessTaskStart
    \/ TqAcquire
    \/ TqTranslateDone

(***************************************************************************)
(* Properties of the TranslationQueue                                      *)
(***************************************************************************)
\* C20: at most max_concurrent calls of client.translate are in flight
C20_AdmissionGate == Cardinality(InFlight) <= tq_config.max_concurrent

\* max_concurrent calls are in flight while another started task waits for
\* the semaphore
C20_Witness ==
    /\ Cardinality(InFlight) = tq_config.max_concurrent
    /\ \E i \in 1..Len(tq_coros) : tq_coros[i].pc = "waiting"
    /\ Cardinality(tq_processing) > tq_config.max_concurrent


\* the task of this id, returned to the queue completed or failed
TqFinished(id) ==
    \E i \in 1..Len(tq_tasks) :
        tq_tasks[i].id = id /\ tq_tasks[i].status \in {"completed", "failed"}

TqTasksOf(id) ==
    Cardinality({i \in 1..Len(tq_tasks) : tq_tasks[i].id = id})
        + Cardinality({i \in 1..Len(tq_coros) : tq_coros[i].task.id = id})

\* C38: at no time do two tasks with the same id exist, whatever the
\* interleaving of add_task, process_queue and _process_task
C38_UniqueTaskIds == \A id \in TqIds : TqTasksOf(id) <= 1


\* the place of the latest add_task call that was accepted for this id
AddedAt(id) == Max(0, CHOOSE k \in 0..Len(tq_log) :
                        /\ (k = 0 \/ tq_log[k] = id)
                        /\ \A j \in (k + 1)..Len(tq_log) : tq_log[j] # id)

\* the pending tasks of the queue
TqPending == SelectSeq(tq_tasks, LAMBDA t : t.status = "pending")

\* task a is to be taken before task b: it has the higher priority, or the
\* same priority and was added earlier
TqBefore(a, b) ==
    \/ a.priority > b.priority
    \/ a.priority = b.priority /\ AddedAt(a.id) < AddedAt(b.id)

\* the tasks process_queue took from the queue in this step, in the order
\* _get_next_task returned them
TqTaken == [k \in 1..(Len(tq_coros') - Len(tq_coros)) |-> tq_coros'[Len(tq_coros) + k].task]

\* C39: each task _get_next_task returns is a pending task of the highest
\* priority among the pending tasks then in the queue, and the earliest
\* added among those of that priority, whatever tasks were added, taken or
\* appended back before.
C39_PriorityOrder ==
    [][Len(tq_coros') > Len(tq_coros) =>
          /\ \A k \in 1..Len(TqTaken) :
                /\ TqTaken[k].status = "pending"
                /\ \E i \in 1..Len(TqPending) : TqPending[i] = TqTaken[k]
                /\ \A i \in 1..Len(TqPending) :
                      \/ \E j \in 1..k : TqTaken[j] = TqPending[i]
                      \/ TqBefore(TqTaken[k], TqPending[i])]_vars

\* C39 witness: process_queue has taken two tasks, the one of higher
\* priority first although it was added later, while a finished task is
\* back in the queue
C39_Witness ==
    /\ \E i \in 1..Len(tq_tasks) : tq_tasks[i].status \in {"completed", "failed"}
    /\ \E a, b \in 1..Len(tq_coros) :
          /\ a < b
          /\ tq_coros[a].pc = "created" /\ tq_coros[b].pc = "created"
          /\ tq_coros[a].task.priority > tq_coros[b].task.priority
          /\ AddedAt(tq_coros[a].task.id) > AddedAt(tq_coros[b].task.id)

(***************************************************************************)
(* RetryManager.should_retry called from several threads                   *)
(* (core/retry_manager.py)                                                 *)
(*                                                                         *)
(* should_retry takes no lock.  A thread runs it one statement at a time;  *)
(* between two statements another thread may run.  A RetryState is an      *)
(* object: rc_heap holds the objects, _states and the local variable state *)
(* refer to them by their position in rc_heap.  All calls are for one task *)
(* id.                                                                     *)
(***************************************************************************)
RcThreads == {1, 2}
RcTask == "t1"

\* the errors the threads pass: one of category validation, one unknown;
\* both have a ceiling of 2 retries in RetryConfig()
RcErrors ==
    {Exc(<<"V", "a", "l", "i", "d", "a", "t", "i", "o", "n", "E", "r", "r", "o", "r">>,
         <<"b", "a", "d", " ", "f", "i", "e", "l", "d">>),
     Exc(<<"E", "x", "c", "e", "p", "t", "i", "o", "n">>,
         <<"b", "o", "o", "m">>)}

\* a thread outside should_retry; ret is what its last call returned
RcOutside(ret) == [pc |-> "outside", error |-> None, category |-> None, state |-> 0,
                   wait_time |-> 0, ret |-> ret]

RcInit ==
    /\ rc_config = RmDefaultConfig
    /\ rc_heap = <<>>
    /\ rc_states = None
    /\ rc_threads = [th \in RcThreads |-> RcOutside(None)]
    /\ rc_trues = 0
    /\ rc_calls = 0

RcIdle ==
    /\ rc_config = RmDefaultConfig
    /\ rc_heap = <<>>
    /\ rc_states = None
    /\ rc_threads = [th \in RcThreads |-> RcOutside(None)]
    /\ rc_trues = 0
    /\ rc_calls = 0

RcFrame == UNCHANGED <<cmVars, rhVars, clVars, rmVars, pmVars, prVars, tqVars, scVars>>

\* should_retry(task_id, error) is called: category = self._categorize_error(error)
RcCategorize(th) ==
    /\ rc_threads[th].pc = "outside"
    /\ rc_calls < MaxRcCalls
    /\ \E e \in RcErrors :
          rc_threads' = [rc_threads EXCEPT ![th] =
                            [pc |-> "get", error |-> Some(e),
                             category |-> Some(rm_categorize_error(e)), state |-> 0,
                             wait_time |-> 0, ret |-> None]]
    /\ rc_calls' = rc_calls + 1
    /\ UNCHANGED <<rc_config, rc_heap, rc_states, rc_trues>>
    /\ RcFrame

\* state = self._states.get(task_id); if not state:
RcGetState(th) ==
    /\ rc_threads[th].pc = "get"
    /\ rc_threads' = [rc_threads EXCEPT ![th] =
                         IF rc_states = None
                         THEN [@ EXCEPT !.pc = "new"]
                         ELSE [@ EXCEPT !.pc = "check", !.state = rc_states[1]]]
    /\ UNCHANGED <<rc_config, rc_heap, rc_states, rc_trues, rc_calls>>
    /\ RcFrame

\* state = RetryState(task_id=task_id, error_category=category, attempt_count=0, ...)
RcNewState(th) ==
    /\ rc_threads[th].pc = "new"
    /\ rc_heap' = Append(rc_heap,
                         [task_id |-> RcTask, error_category |-> rc_threads[th].category[1],
                          attempt_count |-> 0, error_message |-> rc_threads[th].error[1].msg,
                          backoff_factor |-> 100])
    /\ rc_threads' = [rc_threads EXCEPT ![th] = [@ EXCEPT !.pc = "store",
                                                          !.state = Len(rc_heap) + 1]]
    /\ UNCHANGED <<rc_config, rc_states, rc_trues, rc_calls>>
    /\ RcFrame

\* self._states[task_id] = state
RcStoreState(th) ==
    /\ rc_threads[th].pc = "store"
    /\ rc_states' = Some(rc_threads[th].state)
    /\ rc_threads' = [rc_threads EXCEPT ![th] = [@ EXCEPT !.pc = "check"]]
    /\ UNCHANGED <<rc_config, rc_heap, rc_trues, rc_calls>>
    /\ RcFrame

\* if state.attempt_count >= self._get_max_retries(category): return False, 0
RcCheckCount(th) ==
    /\ rc_threads[th].pc = "check"
    /\ rc_threads' = [rc_threads EXCEPT ![th] =
                         IF rc_heap[@.state].attempt_count
                                >= get_max_retries(rc_config, @.category[1])
                         THEN RcOutside(Some([retry |-> FALSE, wait |-> 0]))
                         ELSE [@ EXCEPT !.pc = "wait"]]
    /\ UNCHANGED <<rc_config, rc_heap, rc_states, rc_trues, rc_calls>>
    /\ RcFrame

\* wait_time = self._calculate_wait_time(state), when time.time() % 1 is frac
RcCalculateWaitTime(th) ==
    /\ rc_threads[th].pc = "wait"
    /\ \E frac \in Fractions :
          rc_threads' = [rc_threads EXCEPT ![th] =
                            [@ EXCEPT !.pc = "count",
                                      !.wait_time = rm_calculate_wait_time(rc_config,
                                                        rc_heap[rc_threads[th].state], frac)]]
    /\ UNCHANGED <<rc_config, rc_heap, rc_states, rc_trues, rc_calls>>
    /\ RcFrame

\* state.attempt_count += 1
RcCountAttempt(th) ==
    /\ rc_threads[th].pc = "count"
    /\ rc_heap' = [rc_heap EXCEPT ![rc_threads[th].state] =
                                     [@ EXCEPT !.attempt_count = @ + 1]]
    /\ rc_threads' = [rc_threads EXCEPT ![th] = [@ EXCEPT !.pc = "message"]]
    /\ UNCHANGED <<rc_config, rc_states, rc_trues, rc_calls>>
    /\ RcFrame

\* state.last_attempt = ...; state.next_attempt = ...; state.error_message = str(error)
RcSetMessage(th) ==
    /\ rc_threads[th].pc = "message"
    /\ rc_heap' = [rc_heap EXCEPT ![rc_threads[th].state] =
                                     [@ EXCEPT !.error_message = rc_threads[th].error[1].msg]]
    /\ rc_threads' = [rc_threads EXCEPT ![th] = [@ EXCEPT !.pc = "adjust"]]
    /\ UNCHANGED <<rc_config, rc_states, rc_trues, rc_calls>>
    /\ RcFrame

\* state.backoff_factor = self._adjust_backoff_factor(state); return True, wait_time
RcAdjustAndReturn(th) ==
    /\ rc_threads[th].pc = "adjust"
    /\ rc_heap' = [rc_heap EXCEPT ![rc_threads[th].state] =
                                     [@ EXCEPT !.backoff_factor =
                                            adjust_backoff_factor(rc_heap[rc_threads[th].state])]]
    /\ rc_threads' = [rc_threads EXCEPT ![th] =
                         RcOutside(Some([retry |-> TRUE, wait |-> @.wait_time]))]
    /\ rc_trues' = rc_trues + 1
    /\ UNCHANGED <<rc_config, rc_states, rc_calls>>
    /\ RcFrame

RcStep(th) ==
    \/ RcCategorize(th)
    \/ RcGetState(th)
    \/ RcNewState(th)
    \/ RcStoreState(th)
    \/ RcCheckCount(th)
    \/ RcCalculateWaitTime(th)
    \/ RcCountAttempt(th)
    \/ RcSetMessage(th)
    \/ RcAdjustAndReturn(th)

RcNext == \E th \in RcThreads : RcStep(th)

(***************************************************************************)
(* Properties of RetryManager.should_retry under concurrent calls          *)
(***************************************************************************)
\* the retry ceiling of the errors passed (the same for each of them)
RcCeiling ==
    CHOOSE m \in {get_max_retries(rc_config, rm_categorize_error(e)) : e \in RcErrors} :
        \A e \in RcErrors : get_max_retries(rc_config, rm_categorize_error(e)) <= m

\* every thread is outside should_retry
RcQuiescent == \A th \in RcThreads : rc_threads[th].pc = "outside"

\* C21: no lost updates: the calls that returned true never exceed the
\* retry ceiling, and when no call is in progress the attempt_count of the
\* task's state equals the number of calls that returned true
C21_NoLostUpdates ==
    /\ rc_trues <= RcCeiling
    /\ (RcQuiescent /\ rc_states # None) => rc_heap[rc_states[1]].attempt_count = rc_trues


(***************************************************************************)
(* ChunkManager.split_content / merge_chunks (core/chunk_manager.py)       *)
(*                                                                         *)
(* The structural split works on characters: sizes are lengths of strings, *)
(* a level is the number of leading blanks of a line divided by two.  Line *)
(* numbers are 0-based, as enumerate gives them.                           *)
(***************************************************************************)
\* ChunkConfig.split_keywords as configured by default
DefaultSplitKeywords == <<<<"-", "-", "-">>, <<"=", "=", "=">>, <<"#", "#", "#">>>>

\* the configurations of the model: max_chunk_size in characters, and the
\* default keywords (none occurs in a text of the alphabet) or the keyword
\* "aa"
ScConfigs ==
    [max_chunk_size : {2, MaxContentLen}, split_keywords : {DefaultSplitKeywords, <<<<"a", "a">>>>}]

ScIdleConfig == [max_chunk_size |-> MaxContentLen, split_keywords |-> DefaultSplitKeywords]

\* ChunkInfo(index, start_line, end_line, content, level); context and
\* is_complete keep their defaults
LevelChunkInfo(index, start_line, end_line, content, level) ==
    [index |-> index, start_line |-> start_line, end_line |-> end_line,
     content |-> content, context |-> None, level |-> level, is_complete |-> TRUE]

\* _analyze_structure(lines): (line number, level) of every line that is
\* not blank; current_level and level_stack have no part in the result
RECURSIVE analyze_structure_from(_, _)
analyze_structure_from(lines, i) ==
    IF i >= Len(lines) THEN <<>>
    ELSE LET line == lines[i + 1]
             indent == get_indent_level(line)
             level == indent \div 2
         IN  IF IsBlank(line)
             THEN analyze_structure_from(lines, i + 1)
             ELSE <<<<i, level>>>> \o analyze_structure_from(lines, i + 1)

analyze_structure(lines) == analyze_structure_from(lines, 0)

\* any(kw in line for kw in self.config.split_keywords)
HasKeyword(config, line) ==
    \E k \in 1..Len(config.split_keywords) : Contains(config.split_keywords[k], line)

\* the loop of _smart_split from the i-th entry of structure (0-based) on;
\* st holds the locals chunks, current_chunk, current_start, current_level
\* and chunk_size
RECURSIVE SmartSplitLoop(_, _, _, _, _)
SmartSplitLoop(config, lines, structure, i, st) ==
    IF i >= Len(structure) THEN st
    ELSE LET line_num == structure[i + 1][1]
             level == structure[i + 1][2]
             line == lines[line_num + 1]
             line_size == Len(line)
             need_split == \/ st.chunk_size + line_size > config.max_chunk_size
                           \/ level < st.current_level
                           \/ HasKeyword(config, line)
             cut == IF need_split /\ st.current_chunk # <<>>
                    THEN [st EXCEPT !.chunks = Append(@, LevelChunkInfo(i, st.current_start,
                                                   line_num, join(st.current_chunk),
                                                   st.current_level)),
                                    !.current_chunk = <<>>,
                                    !.current_start = line_num,
                                    !.chunk_size = 0]
                    ELSE st
         IN  SmartSplitLoop(config, lines, structure, i + 1,
                            [cut EXCEPT !.current_chunk = Append(@, line),
                                        !.chunk_size = @ + line_size,
                                        !.current_level = level])

\* _smart_split(lines, structure)
smart_split(config, lines, structure) ==
    LET st == SmartSplitLoop(config, lines, structure, 0,
                             [chunks |-> <<>>, current_chunk |-> <<>>, current_start |-> 0,
                              current_level |-> 0, chunk_size |-> 0])
    IN  IF st.current_chunk # <<>>
        THEN Append(st.chunks, LevelChunkInfo(Len(structure), st.current_start, Len(lines),
                                              join(st.current_chunk), st.current_level))
        ELSE st.chunks

\* _should_merge(chunk1, chunk2)
should_merge(config, chunk1, chunk2) ==
    LET total_size == Len(chunk1.content) + Len(chunk2.content) + 1
    IN  IF total_size > config.max_chunk_size THEN FALSE
        ELSE IF chunk1.level - chunk2.level > 1 \/ chunk2.level - chunk1.level > 1 THEN FALSE
        ELSE IF ~chunk1.is_complete \/ ~chunk2.is_complete THEN TRUE
        ELSE FALSE

\* the loop of _optimize_boundaries from the i-th chunk (0-based) on
RECURSIVE OptimizeLoop(_, _, _, _)
OptimizeLoop(config, chunk_list, i, optimized) ==
    IF i >= Len(chunk_list) THEN optimized
    ELSE LET chunk == chunk_list[i + 1]
         IN  IF i > 0 /\ should_merge(config, optimized[Len(optimized)], chunk)
             THEN LET prev == optimized[Len(optimized)]
                      merged == LevelChunkInfo(i, prev.start_line, chunk.end_line,
                                               prev.content \o <<NL>> \o chunk.content,
                                               Min(prev.level, chunk.level))
                  IN  OptimizeLoop(config, chunk_list, i + 1,
                                   [optimized EXCEPT ![Len(optimized)] = merged])
             ELSE OptimizeLoop(config, chunk_list, i + 1, Append(optimized, chunk))

\* _optimize_boundaries(chunks)
optimize_boundaries(config, chunk_list) ==
    IF chunk_list = <<>> THEN chunk_list ELSE OptimizeLoop(config, chunk_list, 0, <<>>)

\* the headings of the two parts of a context ("previous text:" and "next
\* text:", three characters each in the source)
PreviousLabel == <<"previous", "text", ":">>
NextLabel == <<"next", "text", ":">>

\* _add_context(chunks): each chunk gets the content of its neighbours
add_context(chunk_list) ==
    [i \in 1..Len(chunk_list) |->
        LET before == IF i > 1
                      THEN <<PreviousLabel \o <<NL>> \o chunk_list[i - 1].content>>
                      ELSE <<>>
            after  == IF i < Len(chunk_list)
                      THEN <<NextLabel \o <<NL>> \o chunk_list[i + 1].content>>
                      ELSE <<>>
            ctx    == before \o after
        IN  IF ctx # <<>>
            THEN [chunk_list[i] EXCEPT !.context =
                     Some(IF Len(ctx) = 1 THEN ctx[1] ELSE ctx[1] \o <<NL, NL>> \o ctx[2])]
            ELSE chunk_list[i]]

\* the loop of merge_chunks over zip(chunks, self._chunks) from the k-th
\* pair (1-based) on
RECURSIVE MergeChunksLoop(_, _, _, _, _)
MergeChunksLoop(strings, infos, k, result_lines, current) ==
    IF k > Min(Len(strings), Len(infos)) THEN result_lines
    ELSE LET info == infos[k]
             padded == IF info.start_line > current
                       THEN result_lines \o [j \in 1..(info.start_line - current) |-> <<>>]
                       ELSE result_lines
         IN  MergeChunksLoop(strings, infos, k + 1, padded \o splitlines(strings[k]),
                             info.end_line)

\* merge_chunks(chunks) with self._chunks = infos
merge_chunks(strings, infos) ==
    IF strings = <<>> THEN Returned(<<>>)
    ELSE IF Len(strings) # Len(infos)
    THEN ChunkError("count", None)
    ELSE Returned(join(MergeChunksLoop(strings, infos, 1, <<>>, 0)))

\* the contents of the chunks: [chunk.content for chunk in chunks]
Contents(chunk_list) == [i \in 1..Len(chunk_list) |-> chunk_list[i].content]

ScInit ==
    /\ sc_config \in ScConfigs
    /\ sc_content \in TextsUpTo(MaxContentLen)
    /\ sc_pc = "idle"
    /\ sc_split = <<>>
    /\ sc_chunks = <<>>
    /\ sc_strings = <<>>
    /\ sc_merged = NoOutcome

ScIdle ==
    /\ sc_config = ScIdleConfig
    /\ sc_content = <<>>
    /\ sc_pc = "idle"
    /\ sc_split = <<>>
    /\ sc_chunks = <<>>
    /\ sc_strings = <<>>
    /\ sc_merged = NoOutcome

\* split_content(content)
ScSplitContent ==
    /\ sc_pc = "idle"
    /\ LET lines == splitlines(sc_content)
           structure == analyze_structure(lines)
           split == smart_split(sc_config, lines, structure)
           chunk_list == add_context(optimize_boundaries(sc_config, split))
       IN  /\ sc_split' = split
           /\ sc_chunks' = chunk_list
           /\ sc_strings' = Contents(chunk_list)
    /\ sc_pc' = "split"
    /\ UNCHANGED <<sc_config, sc_content, sc_merged>>
    /\ UNCHANGED <<cmVars, rhVars, clVars, rmVars, pmVars, prVars, tqVars, rcVars>>

\* merge_chunks(chunks), given the strings of split_content as they are, or
\* without the first of them
ScMergeChunks ==
    /\ sc_pc = "split"
    /\ \E strings \in {sc_strings, IF sc_strings = <<>> THEN <<>> ELSE Tail(sc_strings)} :
          /\ sc_merged' = merge_chunks(strings, sc_chunks)
          /\ sc_pc' = IF strings = sc_strings THEN "merged" ELSE "merged_fewer"
    /\ UNCHANGED <<sc_config, sc_content, sc_split, sc_chunks, sc_strings>>
    /\ UNCHANGED <<cmVars, rhVars, clVars, rmVars, pmVars, prVars, tqVars, rcVars>>

ScNext == ScSplitContent \/ ScMergeChunks


(***************************************************************************)
(* Properties of ChunkManager.split_content / merge_chunks                 *)
(***************************************************************************)
\* C28: split_content followed by merge_chunks on the unchanged strings
\* reproduces every line of the content in order, blank lines included
C28_RoundTrip ==
    sc_pc = "merged" =>
        /\ sc_merged.kind = "ok"
        /\ splitlines(sc_merged.text) = splitlines(sc_content)

\* two chunks whose combined size stays within max_chunk_size and whose
\* levels differ by at most one
ScMergeable(chunk1, chunk2) ==
    /\ Len(chunk1.content) + Len(chunk2.content) + 1 <= sc_config.max_chunk_size
    /\ chunk1.level - chunk2.level <= 1
    /\ chunk2.level - chunk1.level <= 1

\* C30: two adjacent chunks of _smart_split whose combined size stays within
\* max_chunk_size and whose levels differ by at most one are one chunk after
\* _optimize_boundaries
C30_PostPassMerge ==
    sc_pc # "idle" =>
        \A i \in 1..(Len(sc_split) - 1) :
            ScMergeable(sc_split[i], sc_split[i + 1]) =>
                \E k \in 1..Len(sc_chunks) :
                    /\ sc_chunks[k].start_line <= sc_split[i].start_line
                    /\ sc_chunks[k].end_line >= sc_split[i + 1].end_line


\* C31, for split_content: the context of a chunk is the content of the
\* chunk before it and of the chunk after it under their headings, and
\* nothing else
C31_StructuralContext ==
    sc_pc # "idle" =>
        \A i \in 1..Len(sc_chunks) :
            LET before == PreviousLabel \o <<NL>> \o sc_chunks[Max(i - 1, 1)].content
                after  == NextLabel \o <<NL>> \o sc_chunks[Min(i + 1, Len(sc_chunks))].content
            IN  sc_chunks[i].context =
                    IF i > 1 /\ i < Len(sc_chunks) THEN Some(before \o <<NL, NL>> \o after)
                    ELSE IF i > 1 THEN Some(before)
                    ELSE IF i < Len(sc_chunks) THEN Some(after)
                    ELSE None

(***************************************************************************)
(* The specifications: one per component, the others standing still.       *)
(***************************************************************************)
ChunkInit == CmInit /\ RhIdle /\ ClIdle /\ RmIdle /\ PmIdle /\ PrIdle /\ TqIdle /\ RcIdle /\ ScIdle
SpecChunk == ChunkInit /\ [][CmNext]_vars

\* a thread inside split_text keeps running: weak fairness of the steps of
\* the loop, of which one is possible whenever the thread is in the loop
\* (current_line < total_lines or not), so it is stated as "the thread is
\* not in the loop for ever without taking a step"
SplitFairness == []<>(cm_pc # "split_loop") \/ []<><<SplitNext>>_vars
SplitInit == CmLinesInit /\ RhIdle /\ ClIdle /\ RmIdle /\ PmIdle /\ PrIdle /\ TqIdle /\ RcIdle /\ ScIdle
SpecSplit == SplitInit /\ [][SplitNext]_vars /\ SplitFairness

RetryHandlerInit == CmIdle /\ RhInit /\ ClIdle /\ RmIdle /\ PmIdle /\ PrIdle /\ TqIdle /\ RcIdle /\ ScIdle
SpecRetryHandler == RetryHandlerInit /\ [][RhNext]_vars

CategorizeInit == CmIdle /\ RhIdle /\ ClInit /\ RmIdle /\ PmIdle /\ PrIdle /\ TqIdle /\ RcIdle /\ ScIdle
SpecCategorize == CategorizeInit /\ [][ClNext]_vars

RetryManagerInit == CmIdle /\ RhIdle /\ ClIdle /\ RmInit /\ PmIdle /\ PrIdle /\ TqIdle /\ RcIdle /\ ScIdle
SpecRetryManager == RetryManagerInit /\ [][RmNext]_vars

ProgressInit == CmIdle /\ RhIdle /\ ClIdle /\ RmIdle /\ PmInit /\ PrIdle /\ TqIdle /\ RcIdle /\ ScIdle
SpecProgress == ProgressInit /\ [][PmNext]_vars

RecoveryInit == CmIdle /\ RhIdle /\ ClIdle /\ RmIdle /\ PmIdle /\ PrInit /\ TqIdle /\ RcIdle /\ ScIdle
SpecRecovery == RecoveryInit /\ [][PrNext]_vars

QueueInit == CmIdle /\ RhIdle /\ ClIdle /\ RmIdle /\ PmIdle /\ PrIdle /\ TqInit /\ RcIdle /\ ScIdle
SpecQueue == QueueInit /\ [][TqNext]_vars

ConcurrentRetryInit == CmIdle /\ RhIdle /\ ClIdle /\ RmIdle /\ PmIdle /\ PrIdle /\ TqIdle /\ RcInit /\ ScIdle
SpecConcurrentRetry == ConcurrentRetryInit /\ [][RcNext]_vars

StructuralInit == CmIdle /\ RhIdle /\ ClIdle /\ RmIdle /\ PmIdle /\ PrIdle /\ TqIdle /\ RcIdle /\ ScInit
SpecStructural == StructuralInit /\ [][ScNext]_vars

\* process_queue runs for ever; the event loop runs every coroutine that is
\* ready; every call of client.translate returns or raises
QueueFairness ==
    /\ WF_vars(TqProcessQueue)
    /\ WF_vars(TqProcessTaskStart)
    /\ WF_vars(TqAcquire)
    /\ WF_vars(TqTranslateDone)
SpecQueueFair == QueueInit /\ [][TqNext]_vars /\ QueueFairness
====
